---- MODULE Spec2Model ----
(***************************************************************************)
(* Model of the html_from_duckdb Caddy handler (HTMLFromDuckDB): request   *)
(* routing, SQL text construction, conditional caching and the pure string *)
(* helpers it is built from.                                               *)
(*                                                                         *)
(* Strings are sequences of one-character strings, so that every string    *)
(* function is computed character by character as the Go code does.        *)
(* Record contents are sequences of bytes (0..255).                        *)
(***************************************************************************)
EXTENDS Integers, Sequences, FiniteSets, TLC

(***************************************************************************)
(* Bounds of the model.                                                    *)
(***************************************************************************)
MaxStrLen == 4
MaxFeatures == 2
MaxScriptLen == 5

(***************************************************************************)
(* Go string helpers.                                                      *)
(***************************************************************************)
\* A Go string literal as the sequence of its characters.
Chars(s) == [i \in 1..Len(s) |-> SubSeq(s, i, i)]

\* All strings over alphabet A of length at most n.
StrsUpTo(A, n) == UNION {[1..k -> A] : k \in 0..n}

\* strings.HasPrefix
HasPrefix(s, p) == Len(s) >= Len(p) /\ SubSeq(s, 1, Len(p)) = p

\* strings.HasSuffix
HasSuffix(s, p) == Len(s) >= Len(p) /\ SubSeq(s, Len(s) - Len(p) + 1, Len(s)) = p

\* strings.TrimSuffix
TrimSuffix(s, p) == IF HasSuffix(s, p) THEN SubSeq(s, 1, Len(s) - Len(p)) ELSE s

\* unicode.IsSpace for the Latin-1 range, as strings.TrimSpace uses it.
WhiteSpace == {" ", "\t", "\n", "\r", "\f"}

RECURSIVE TrimLeftSpace(_)
TrimLeftSpace(s) ==
    IF s # <<>> /\ Head(s) \in WhiteSpace THEN TrimLeftSpace(Tail(s)) ELSE s

RECURSIVE TrimRightSpace(_)
TrimRightSpace(s) ==
    IF s # <<>> /\ s[Len(s)] \in WhiteSpace
    THEN TrimRightSpace(SubSeq(s, 1, Len(s) - 1))
    ELSE s

\* strings.TrimSpace
TrimSpace(s) == TrimRightSpace(TrimLeftSpace(s))

\* strings.Split(s, sep) for a one-character separator: always at least one
\* piece, the pieces are the maximal separator-free stretches of s.
RECURSIVE SplitFrom(_, _, _)
SplitFrom(s, sep, cur) ==
    IF s = <<>> THEN <<cur>>
    ELSE IF Head(s) = sep THEN <<cur>> \o SplitFrom(Tail(s), sep, <<>>)
    ELSE SplitFrom(Tail(s), sep, Append(cur, Head(s)))

Split(s, sep) == SplitFrom(s, sep, <<>>)

\* strings.Join
RECURSIVE Join(_, _)
Join(parts, sep) ==
    IF parts = <<>> THEN <<>>
    ELSE IF Len(parts) = 1 THEN parts[1]
    ELSE parts[1] \o sep \o Join(Tail(parts), sep)

(***************************************************************************)
(* sanitizeIdentifier and escapeSQLString.                                 *)
(***************************************************************************)
LowerAZ == {"a","b","c","d","e","f","g","h","i","j","k","l","m",
            "n","o","p","q","r","s","t","u","v","w","x","y","z"}
UpperAZ == {"A","B","C","D","E","F","G","H","I","J","K","L","M",
            "N","O","P","Q","R","S","T","U","V","W","X","Y","Z"}
Digits09 == {"0","1","2","3","4","5","6","7","8","9"}

\* A character test that also lets the hyphen through.
IsIdentRune_dash(r) ==
    r \in LowerAZ \/ r \in UpperAZ \/ r \in Digits09 \/ r = "_" \/ r = "-"

\* The condition of the if in sanitizeIdentifier's loop.
IsIdentRune(r) == r \in LowerAZ \/ r \in UpperAZ \/ r \in Digits09 \/ r = "_"

\* sanitizeIdentifier: the loop over the runes of s, writing the allowed ones.
RECURSIVE sanitizeIdentifier(_)
sanitizeIdentifier(s) ==
    IF s = <<>> THEN <<>>
    ELSE (IF IsIdentRune(Head(s)) THEN <<Head(s)>> ELSE <<>>)
         \o sanitizeIdentifier(Tail(s))

\* An escaping that returns its argument as it is.
escapeSQLString_none(s) == s

\* An escaping with a backslash before each quote instead of a second quote.
RECURSIVE escapeSQLString_backslash(_)
escapeSQLString_backslash(s) ==
    IF Len(s) <= 1 THEN (IF s = <<"'">> THEN <<"\\", "'">> ELSE s)
    ELSE LET m == Len(s) \div 2
         IN  escapeSQLString_backslash(SubSeq(s, 1, m))
             \o escapeSQLString_backslash(SubSeq(s, m + 1, Len(s)))

\* escapeSQLString: strings.ReplaceAll(s, "'", "''"), evaluated on the two
\* halves of s.
RECURSIVE escapeSQLString(_)
escapeSQLString(s) ==
    IF Len(s) <= 1 THEN (IF s = <<"'">> THEN <<"'", "'">> ELSE s)
    ELSE LET m == Len(s) \div 2
         IN  escapeSQLString(SubSeq(s, 1, m)) \o escapeSQLString(SubSeq(s, m + 1, Len(s)))

(***************************************************************************)
(* crypto/md5 (RFC 1321) and encoding/hex, as used for the ETag.  A 32-bit *)
(* word is a pair <<hi, lo>> of 16-bit halves.                             *)
(***************************************************************************)
W16 == 65536

\* Bitwise combination of three 16-bit values, bit by bit; f selects the
\* round function: 1: (b AND c) OR (NOT b AND d), 2: (b AND d) OR (c AND NOT d),
\* 3: b XOR c XOR d, 4: c XOR (b OR NOT d).
BitFn(f, b, c, d) ==
    CASE f = 1 -> IF b = 1 THEN c ELSE d
      [] f = 2 -> IF d = 1 THEN b ELSE c
      [] f = 3 -> (b + c + d) % 2
      [] OTHER -> (c + (IF b = 1 \/ d = 0 THEN 1 ELSE 0)) % 2

RECURSIVE Bits16(_, _, _, _, _)
Bits16(f, b, c, d, n) ==
    IF n = 0 THEN 0
    ELSE BitFn(f, b % 2, c % 2, d % 2)
         + 2 * Bits16(f, b \div 2, c \div 2, d \div 2, n - 1)

RoundFn(f, b, c, d) ==
    << Bits16(f, b[1], c[1], d[1], 16), Bits16(f, b[2], c[2], d[2], 16) >>

\* Addition modulo 2^32.
Add32(x, y) ==
    LET lo == x[2] + y[2]
        hi == x[1] + y[1] + (lo \div W16)
    IN  << hi % W16, lo % W16 >>

Pow2(n) == CASE n = 0 -> 1 [] n = 1 -> 2 [] n = 2 -> 4 [] n = 3 -> 8
             [] n = 4 -> 16 [] n = 5 -> 32 [] n = 6 -> 64 [] n = 7 -> 128
             [] n = 8 -> 256 [] n = 9 -> 512 [] n = 10 -> 1024 [] n = 11 -> 2048
             [] n = 12 -> 4096 [] n = 13 -> 8192 [] n = 14 -> 16384
             [] n = 15 -> 32768 [] OTHER -> 65536

\* Rotate a 32-bit word left by s bits, 0 < s < 32.
RotL32(x, s) ==
    LET y == IF s >= 16 THEN << x[2], x[1] >> ELSE x
        r == IF s >= 16 THEN s - 16 ELSE s
    IN  IF r = 0 THEN y
        ELSE << (y[1] % Pow2(16 - r)) * Pow2(r) + (y[2] \div Pow2(16 - r)),
                (y[2] % Pow2(16 - r)) * Pow2(r) + (y[1] \div Pow2(16 - r)) >>

\* floor(abs(sin(i)) * 2^32), i = 1..64.
MD5K == <<
    <<55146, 42104>>, <<59591, 46934>>, <<9248, 28891>>, <<49597, 52974>>,
    <<62844, 4015>>, <<18311, 50730>>, <<43056, 17939>>, <<64838, 38145>>,
    <<27008, 39128>>, <<35652, 63407>>, <<65535, 23473>>, <<35164, 55230>>,
    <<27536, 4386>>, <<64920, 29075>>, <<42617, 17294>>, <<18868, 2081>>,
    <<63006, 9570>>, <<49216, 45888>>, <<9822, 23121>>, <<59830, 51114>>,
    <<54831, 4189>>, <<580, 5203>>, <<55457, 59009>>, <<59347, 64456>>,
    <<8673, 52710>>, <<49975, 2006>>, <<62677, 3463>>, <<17754, 5357>>,
    <<43491, 59653>>, <<64751, 41976>>, <<26479, 729>>, <<36138, 19594>>,
    <<65530, 14658>>, <<34673, 63105>>, <<28061, 24866>>, <<64997, 14348>>,
    <<42174, 59972>>, <<19422, 53161>>, <<63163, 19296>>, <<48831, 48240>>,
    <<10395, 32454>>, <<60065, 10234>>, <<54511, 12421>>, <<1160, 7429>>,
    <<55764, 53305>>, <<59099, 39397>>, <<8098, 31992>>, <<50348, 22117>>,
    <<62505, 8772>>, <<17194, 65431>>, <<43924, 9127>>, <<64659, 41017>>,
    <<25947, 22979>>, <<36620, 52370>>, <<65519, 62589>>, <<34180, 24017>>,
    <<28584, 32335>>, <<65068, 59104>>, <<41729, 17172>>, <<19976, 4513>>,
    <<63315, 32386>>, <<48442, 62005>>, <<10967, 53947>>, <<60294, 54161>> >>

\* Per-step left-rotation amounts.
MD5S == << 7, 12, 17, 22, 7, 12, 17, 22, 7, 12, 17, 22, 7, 12, 17, 22,
           5,  9, 14, 20, 5,  9, 14, 20, 5,  9, 14, 20, 5,  9, 14, 20,
           4, 11, 16, 23, 4, 11, 16, 23, 4, 11, 16, 23, 4, 11, 16, 23,
           6, 10, 15, 21, 6, 10, 15, 21, 6, 10, 15, 21, 6, 10, 15, 21 >>

\* Initial chaining value A, B, C, D.
MD5Init == << <<26437, 8961>>, <<61389, 43913>>, <<39098, 56574>>, <<4146, 21622>> >>

\* Message word index used at step i (0-based step, 0-based word).
MD5G(i) ==
    CASE i < 16 -> i
      [] i < 32 -> (5 * i + 1) % 16
      [] i < 48 -> (3 * i + 5) % 16
      [] OTHER  -> (7 * i) % 16

\* One of the 64 steps on the working state st = <<a, b, c, d>>.
MD5Step(st, m, i) ==
    LET f == RoundFn((i \div 16) + 1, st[2], st[3], st[4])
        t == Add32(Add32(Add32(f, st[1]), MD5K[i + 1]), m[MD5G(i) + 1])
    IN  << st[4], Add32(st[2], RotL32(t, MD5S[i + 1])), st[2], st[3] >>

\* The 64 steps in order.  (The test on Len(st) only makes TLC compute each
\* step's result before the next step starts.)
RECURSIVE MD5Steps(_, _, _)
MD5Steps(st, m, i) ==
    IF i = 64 \/ Len(st) # 4 THEN st ELSE MD5Steps(MD5Step(st, m, i), m, i + 1)

\* The compression of one 64-byte block (16 little-endian words) into h.
MD5Block(h, m) ==
    LET st == MD5Steps(h, m, 0)
    IN  << Add32(h[1], st[1]), Add32(h[2], st[2]),
           Add32(h[3], st[3]), Add32(h[4], st[4]) >>

\* Message padding: 0x80, zeros up to 56 mod 64, the bit length as 8
\* little-endian bytes (contents are far below 2^29 bytes).
MD5Pad(bytes) ==
    LET n     == Len(bytes)
        zeros == (55 - n) % 64
        bits  == n * 8
    IN  bytes \o <<128>> \o [i \in 1..zeros |-> 0]
        \o << bits % 256, (bits \div 256) % 256, (bits \div 65536) % 256,
              (bits \div 16777216) % 256, 0, 0, 0, 0 >>

\* The 16 words of block k (0-based) of the padded message p.
MD5Words(p, k) ==
    [j \in 1..16 |->
        LET o == 64 * k + 4 * (j - 1)
        IN  << p[o + 3] + 256 * p[o + 4], p[o + 1] + 256 * p[o + 2] >>]

RECURSIVE MD5Blocks(_, _, _)
MD5Blocks(h, p, k) ==
    IF 64 * k >= Len(p) \/ Len(h) # 4 THEN h
    ELSE MD5Blocks(MD5Block(h, MD5Words(p, k)), p, k + 1)

\* md5.Sum: the 16 digest bytes.
md5Sum(bytes) ==
    LET h == MD5Blocks(MD5Init, MD5Pad(bytes), 0)
    IN  [i \in 1..16 |->
            LET w == h[((i - 1) \div 4) + 1]
                b == (i - 1) % 4
            IN  CASE b = 0 -> w[2] % 256
                  [] b = 1 -> w[2] \div 256
                  [] b = 2 -> w[1] % 256
                  [] OTHER -> w[1] \div 256]

HexDigits == <<"0","1","2","3","4","5","6","7","8","9","a","b","c","d","e","f">>

\* hex.EncodeToString
hexEncodeToString(bytes) ==
    [i \in 1..(2 * Len(bytes)) |->
        LET b == bytes[(i + 1) \div 2]
        IN  IF i % 2 = 1 THEN HexDigits[(b \div 16) + 1] ELSE HexDigits[(b % 16) + 1]]

\* The ETag of a content: `"` + hex(md5(html)) + `"`.
computeETag(html) == <<"\"">> \o hexEncodeToString(md5Sum(html)) \o <<"\"">>

\* Two 128-byte contents with the same MD5 digest (Wang and Yu, 2004).
WangA == <<
    209, 49, 221, 2, 197, 230, 238, 196, 105, 61, 154, 6, 152, 175, 249, 92,
    47, 202, 181, 135, 18, 70, 126, 171, 64, 4, 88, 62, 184, 251, 127, 137,
    85, 173, 52, 6, 9, 244, 179, 2, 131, 228, 136, 131, 37, 113, 65, 90,
    8, 81, 37, 232, 247, 205, 201, 159, 217, 29, 189, 242, 128, 55, 60, 91,
    216, 130, 62, 49, 86, 52, 143, 91, 174, 109, 172, 212, 54, 201, 25, 198,
    221, 83, 226, 180, 135, 218, 3, 253, 2, 57, 99, 6, 210, 72, 205, 160,
    233, 159, 51, 66, 15, 87, 126, 232, 206, 84, 182, 112, 128, 168, 13, 30,
    198, 152, 33, 188, 182, 168, 131, 147, 150, 249, 101, 43, 111, 247, 42, 112 >>
WangB == <<
    209, 49, 221, 2, 197, 230, 238, 196, 105, 61, 154, 6, 152, 175, 249, 92,
    47, 202, 181, 7, 18, 70, 126, 171, 64, 4, 88, 62, 184, 251, 127, 137,
    85, 173, 52, 6, 9, 244, 179, 2, 131, 228, 136, 131, 37, 241, 65, 90,
    8, 81, 37, 232, 247, 205, 201, 159, 217, 29, 189, 114, 128, 55, 60, 91,
    216, 130, 62, 49, 86, 52, 143, 91, 174, 109, 172, 212, 54, 201, 25, 198,
    221, 83, 226, 52, 135, 218, 3, 253, 2, 57, 99, 6, 210, 72, 205, 160,
    233, 159, 51, 66, 15, 87, 126, 232, 206, 84, 182, 112, 128, 40, 13, 30,
    198, 152, 33, 188, 182, 168, 131, 147, 150, 249, 101, 171, 111, 247, 42, 112 >>

\* WangA with its last byte changed.
WangC == [WangA EXCEPT ![128] = 113]

\* The contents the store can return: no bytes, the two colliding contents,
\* and a content one byte away from the first of them.
Contents == { <<>>, WangA, WangB, WangC }

\* The ETag of each content of the model.  It is computed once, in Init, and
\* kept in etags, because the digest of a content never changes.
VARIABLE etags

\* strconv.Itoa for a non-negative number.
RECURSIVE Itoa(_)
Itoa(n) ==
    IF n < 10 THEN <<HexDigits[n + 1]>>
    ELSE Itoa(n \div 10) \o <<HexDigits[(n % 10) + 1]>>

\* An ETag made of the quoted content length instead of the digest.
generateETag_length(html) == <<"\"">> \o Itoa(Len(html)) \o <<"\"">>

\* The "Generate ETag from content hash" block of ServeHTTP.
generateETag(html) == etags[html]

\* A match test that compares the pieces without trimming them.
etagMatches_noTrim(match, etag) ==
    IF match = <<>> THEN FALSE
    ELSE IF match = <<"*">> THEN TRUE
    ELSE \E i \in DOMAIN Split(match, ",") : Split(match, ",")[i] = etag

\* The If-None-Match test of ServeHTTP (etagMatches in the tests): TRUE when
\* the handler answers 304 for header value match and fingerprint etag.
RECURSIVE AnyPieceEquals(_, _)
AnyPieceEquals(pieces, etag) ==
    IF pieces = <<>> THEN FALSE
    ELSE IF TrimSpace(Head(pieces)) = etag THEN TRUE
    ELSE AnyPieceEquals(Tail(pieces), etag)

etagMatches(match, etag) ==
    IF match = <<>> THEN FALSE
    ELSE IF match = <<"*">> THEN TRUE
    ELSE AnyPieceEquals(Split(match, ","), etag)

(***************************************************************************)
(* The handler struct and its configuration.                               *)
(***************************************************************************)
\* The zero value of HTMLFromDuckDB with the one required field, Table, set.
ZeroConfig ==
    [ Table            |-> Chars("html"),
      HTMLColumn       |-> <<>>,
      IDColumn         |-> <<>>,
      IDParam          |-> <<>>,
      WhereClause      |-> <<>>,
      NotFoundRedirect |-> <<>>,
      CacheControl     |-> <<>>,
      QueryTimeout     |-> <<>>,
      IndexEnabled     |-> FALSE,
      IndexMacro       |-> <<>>,
      SearchEnabled    |-> FALSE,
      SearchMacro      |-> <<>>,
      SearchParam      |-> <<>>,
      BasePath         |-> <<>>,
      InitSQLFile      |-> <<>>,
      RecordMacro      |-> <<>>,
      TableMacro       |-> <<>>,
      TablePath        |-> <<>>,
      HealthEnabled    |-> FALSE,
      HealthPath       |-> <<>>,
      HealthDetailed   |-> FALSE,
      db               |-> "nil",
      timeout          |-> 0 ]

\* The settings a Caddyfile can add to the zero configuration, grouped by the
\* feature they configure (UnmarshalCaddyfile stores each value verbatim).
Settings ==
    { [feature |-> "health",   set |-> [HealthEnabled |-> TRUE]],
      [feature |-> "table",    set |-> [TableMacro |-> Chars("tbl")]],
      [feature |-> "table",    set |-> [TableMacro |-> Chars("tbl"), TablePath |-> Chars("_he")]],
      [feature |-> "search",   set |-> [SearchEnabled |-> TRUE]],
      [feature |-> "index",    set |-> [IndexEnabled |-> TRUE]],
      [feature |-> "id_param", set |-> [IDParam |-> Chars("id")]],
      [feature |-> "base",     set |-> [BasePath |-> Chars("/w")]],
      [feature |-> "record",   set |-> [RecordMacro |-> Chars("rec")]],
      [feature |-> "cache",    set |-> [CacheControl |-> Chars("public")]],
      [feature |-> "redirect", set |-> [NotFoundRedirect |-> Chars("/nf")]],
      [feature |-> "where",    set |-> [WhereClause |-> Chars("ok")]],
      [feature |-> "no_table", set |-> [Table |-> <<>>]],
      [feature |-> "no_table", set |-> [Table |-> Chars("--")]],
      [feature |-> "timeout",  set |-> [QueryTimeout |-> Chars("5x")]],
      [feature |-> "timeout",  set |-> [QueryTimeout |-> Chars("0")]],
      [feature |-> "timeout",  set |-> [QueryTimeout |-> Chars("-1s")]],
      [feature |-> "timeout",  set |-> [QueryTimeout |-> Chars("250ms")]],
      [feature |-> "init_sql", set |-> [InitSQLFile |-> Chars("init.sql")]] }

\* The choices of settings the model starts from: at most MaxFeatures
\* features configured, one setting per feature; the table name without an
\* identifier character is configured on its own.
SettingChoices ==
    { S \in SUBSET Settings :
        /\ Cardinality(S) <= MaxFeatures
        /\ \A a, b \in S : a.feature = b.feature => a = b
        /\ (\E v \in S : v.set = [Table |-> Chars("--")]) => Cardinality(S) = 1 }

\* The configuration with the settings of S applied.
Configure(S) ==
    [ f \in DOMAIN ZeroConfig |->
        IF \E v \in S : f \in DOMAIN v.set
        THEN (CHOOSE v \in S : f \in DOMAIN v.set).set[f]
        ELSE ZeroConfig[f] ]

\* time.ParseDuration for the durations of the model: an optional sign, decimal
\* digits and one of the units ms, s, m, h; "0" alone is valid.  The result is
\* in milliseconds.
DigitVal(c) == CHOOSE i \in 0..9 : HexDigits[i + 1] = c

RECURSIVE DecimalValue(_)
DecimalValue(ds) ==
    IF ds = <<>> THEN 0 ELSE 10 * DecimalValue(SubSeq(ds, 1, Len(ds) - 1)) + DigitVal(ds[Len(ds)])

RECURSIVE LeadingDigits(_)
LeadingDigits(s) ==
    IF s # <<>> /\ Head(s) \in Digits09 THEN <<Head(s)>> \o LeadingDigits(Tail(s)) ELSE <<>>

ParseDuration(s) ==
    LET neg  == s # <<>> /\ Head(s) = "-"
        body == IF s # <<>> /\ Head(s) \in {"-", "+"} THEN Tail(s) ELSE s
        ds   == LeadingDigits(body)
        unit == SubSeq(body, Len(ds) + 1, Len(body))
        mult == CASE unit = Chars("ms") -> 1
                  [] unit = Chars("s")  -> 1000
                  [] unit = Chars("m")  -> 60000
                  [] unit = Chars("h")  -> 3600000
                  [] OTHER -> 0
    IN  IF body = <<"0">> THEN [ok |-> TRUE, d |-> 0]
        ELSE IF ds = <<>> \/ mult = 0 THEN [ok |-> FALSE, d |-> 0]
        ELSE [ok |-> TRUE, d |-> (IF neg THEN -1 ELSE 1) * DecimalValue(ds) * mult]

(***************************************************************************)
(* Requests, responses and store operations.                               *)
(***************************************************************************)
\* url.Values.Get on the query pairs <<key, value>> in URL order: the first
\* value of the key, "" when the key is absent.
RECURSIVE QueryGet(_, _)
QueryGet(q, key) ==
    IF q = <<>> THEN <<>>
    ELSE IF Head(q)[1] = key THEN Head(q)[2]
    ELSE QueryGet(Tail(q), key)

\* The keys of the url.Values map.
QueryKeys(q) == {q[i][1] : i \in DOMAIN q}

\* strconv.Atoi: an optional sign and decimal digits within the int64 range.
\* The value is kept as its canonical digits (it can exceed TLC's integers).
RECURSIVE StripZeros(_)
StripZeros(ds) ==
    IF Len(ds) > 1 /\ Head(ds) = "0" THEN StripZeros(Tail(ds)) ELSE ds

\* ds <= max for two digit strings of the same length.
RECURSIVE DigitsLeq(_, _)
DigitsLeq(ds, max) ==
    IF ds = <<>> THEN TRUE
    ELSE IF DigitVal(Head(ds)) < DigitVal(Head(max)) THEN TRUE
    ELSE IF DigitVal(Head(ds)) > DigitVal(Head(max)) THEN FALSE
    ELSE DigitsLeq(Tail(ds), Tail(max))

MaxInt64Digits == Chars("9223372036854775807")
MinInt64Digits == Chars("9223372036854775808")

Atoi(s) ==
    LET neg  == s # <<>> /\ Head(s) = "-"
        body == IF s # <<>> /\ Head(s) \in {"-", "+"} THEN Tail(s) ELSE s
        ds   == StripZeros(body)
        syn  == body # <<>> /\ \A i \in DOMAIN body : body[i] \in Digits09
        fits == \/ Len(ds) < Len(MaxInt64Digits)
                \/ /\ Len(ds) = Len(MaxInt64Digits)
                   /\ DigitsLeq(ds, IF neg THEN MinInt64Digits ELSE MaxInt64Digits)
    IN  IF syn /\ fits
        THEN [ok |-> TRUE, neg |-> neg /\ ds # <<"0">>, digits |-> ds]
        ELSE [ok |-> FALSE, neg |-> FALSE, digits |-> <<"0">>]

\* A response writer nothing has been written to.
NoHeaders == [n \in {} |-> <<>>]
NewWriter == [status |-> 0, hdr |-> NoHeaders, body |-> <<>>]

\* w.Header().Set
SetHeader(w, name, value) ==
    [w EXCEPT !.hdr = [n \in (DOMAIN w.hdr) \cup {name} |->
                          IF n = name THEN value ELSE w.hdr[n]]]

\* w.WriteHeader
WriteHeader(w, status) == [w EXCEPT !.status = status]

\* w.Write, which fails when the client is gone.
Write(w, bytes, ok) == IF ok THEN [w EXCEPT !.body = bytes] ELSE w

\* A store operation whose context always gets a deadline, whatever the
\* timeout is.
StoreOp_alwaysDeadline(c, call, q) ==
    [call |-> call, sql |-> q.sql, args |-> q.args, lits |-> q.lits,
     ctx |-> "request", deadline |-> TRUE, timeout |-> c.timeout]

\* A store operation: the database/sql call, its SQL text and bound
\* arguments, the values the builder embedded as quoted literals, and its
\* context: the context of the request, with a deadline timeout milliseconds
\* ahead when h.timeout > 0 (timeout is 0 when there is no deadline).
StoreOp(c, call, q) ==
    [call |-> call, sql |-> q.sql, args |-> q.args, lits |-> q.lits,
     ctx |-> "request", deadline |-> c.timeout > 0,
     timeout |-> IF c.timeout > 0 THEN c.timeout ELSE 0]

\* What ServeHTTP did for request r.
Outcome(route, r, w, ret, ops, store) ==
    [route |-> route, req |-> r, w |-> w, ret |-> ret, next |-> FALSE,
     ops |-> ops, store |-> store]

\* Return values: nil, caddyhttp.Error(status, err), or the error w.Write gave.
RetNil == [kind |-> "nil", status |-> 0]
HandlerError(status) == [kind |-> "HandlerError", status |-> status]
WriteError == [kind |-> "error", status |-> 0]

NoStore == [kind |-> "unused"]

(***************************************************************************)
(* Record lookup: the part of ServeHTTP after the routing.                 *)
(***************************************************************************)
\* A query builder that writes the identifier into the SQL text as a quoted
\* literal in both modes.
recordQuery_inline(c, id) ==
    IF c.RecordMacro # <<>> THEN
        [ sql  |-> Chars("SELECT ") \o sanitizeIdentifier(c.HTMLColumn)
                   \o Chars(" FROM ") \o sanitizeIdentifier(c.RecordMacro)
                   \o Chars("(id := '") \o escapeSQLString(id) \o Chars("')"),
          args |-> <<>>,
          lits |-> <<id>> ]
    ELSE
        [ sql  |-> Chars("SELECT ") \o sanitizeIdentifier(c.HTMLColumn)
                   \o Chars(" FROM ") \o sanitizeIdentifier(c.Table)
                   \o Chars(" WHERE ") \o sanitizeIdentifier(c.IDColumn)
                   \o Chars(" = '") \o escapeSQLString(id) \o Chars("'")
                   \o (IF c.WhereClause # <<>>
                       THEN Chars(" AND (") \o c.WhereClause \o Chars(")")
                       ELSE <<>>),
          args |-> <<>>,
          lits |-> <<id>> ]

\* The "Build query" block: SQL text, bound arguments, embedded literals.
recordQuery(c, id) ==
    IF c.RecordMacro # <<>> THEN
        [ sql  |-> Chars("SELECT ") \o sanitizeIdentifier(c.HTMLColumn)
                   \o Chars(" FROM ") \o sanitizeIdentifier(c.RecordMacro)
                   \o Chars("(id := '") \o escapeSQLString(id) \o Chars("')"),
          args |-> <<>>,
          lits |-> <<id>> ]
    ELSE
        [ sql  |-> Chars("SELECT ") \o sanitizeIdentifier(c.HTMLColumn)
                   \o Chars(" FROM ") \o sanitizeIdentifier(c.Table)
                   \o Chars(" WHERE ") \o sanitizeIdentifier(c.IDColumn)
                   \o Chars(" = ?")
                   \o (IF c.WhereClause # <<>>
                       THEN Chars(" AND (") \o c.WhereClause \o Chars(")")
                       ELSE <<>>),
          args |-> <<id>>,
          lits |-> <<>> ]

\* html.EscapeString for the redirect link.
RECURSIVE htmlEscape(_)
htmlEscape(s) ==
    IF s = <<>> THEN <<>>
    ELSE (CASE Head(s) = "&"  -> Chars("&amp;")
            [] Head(s) = "'"  -> Chars("&#39;")
            [] Head(s) = "<"  -> Chars("&lt;")
            [] Head(s) = ">"  -> Chars("&gt;")
            [] Head(s) = "\"" -> Chars("&#34;")
            [] OTHER -> <<Head(s)>>) \o htmlEscape(Tail(s))

\* http.Redirect(w, r, url, http.StatusFound) for a GET request and a rooted
\* url.
Redirect(w, url, ok) ==
    LET w1 == SetHeader(w, "Location", url)
        w2 == IF "Content-Type" \in DOMAIN w1.hdr THEN w1
              ELSE SetHeader(w1, "Content-Type", Chars("text/html; charset=utf-8"))
    IN  Write(WriteHeader(w2, 302),
              Chars("<a href=\"") \o htmlEscape(url) \o Chars("\">Found</a>.\n\n"), ok)

\* A response that sets the headers before the conditional check, so that a
\* 304 carries them too.
recordResponse_headersFirst(c, r, html, writeOK) ==
    LET etag == generateETag(html)
        w1 == SetHeader(NewWriter, "Content-Type", Chars("text/html; charset=utf-8"))
        w2 == SetHeader(w1, "Content-Length", Itoa(Len(html)))
        w3 == SetHeader(w2, "ETag", etag)
        w4 == IF c.CacheControl # <<>>
              THEN SetHeader(w3, "Cache-Control", c.CacheControl) ELSE w3
    IN  IF etagMatches(r.inm, etag) THEN
            [w |-> WriteHeader(w4, 304), ret |-> RetNil]
        ELSE
            [w   |-> Write(WriteHeader(w4, 200), html, writeOK),
             ret |-> IF writeOK THEN RetNil ELSE WriteError]

\* The response for a row: conditional check, headers, body.
recordResponse(c, r, html, writeOK) ==
    LET etag == generateETag(html)
    IN  IF etagMatches(r.inm, etag) THEN
            [w |-> WriteHeader(NewWriter, 304), ret |-> RetNil]
        ELSE
            LET w1 == SetHeader(NewWriter, "Content-Type", Chars("text/html; charset=utf-8"))
                w2 == SetHeader(w1, "Content-Length", Itoa(Len(html)))
                w3 == SetHeader(w2, "ETag", etag)
                w4 == IF c.CacheControl # <<>>
                      THEN SetHeader(w3, "Cache-Control", c.CacheControl) ELSE w3
            IN  [w   |-> Write(WriteHeader(w4, 200), html, writeOK),
                 ret |-> IF writeOK THEN RetNil ELSE WriteError]

serveRecord(c, r, id, env) ==
    LET op == StoreOp(c, "QueryRowContext", recordQuery(c, id))
    IN  CASE env.row.kind = "err" ->
               Outcome("record", r, NewWriter, HandlerError(500), <<op>>, env.row)
          [] env.row.kind = "norows" ->
               IF c.NotFoundRedirect # <<>>
               THEN Outcome("record", r, Redirect(NewWriter, c.NotFoundRedirect, env.writeOK),
                            RetNil, <<op>>, env.row)
               ELSE Outcome("record", r, NewWriter, HandlerError(404), <<op>>, env.row)
          [] OTHER ->
               LET res == recordResponse(c, r, env.row.html, env.writeOK)
               IN  Outcome("record", r, res.w, res.ret, <<op>>, env.row)

(***************************************************************************)
(* serveIndex, serveSearch, serveTable.                                    *)
(***************************************************************************)
\* The longest search term embedded in a macro call.
MaxSearchTerm == 200

\* The response of serveIndex, serveSearch and serveTable for the text the
\* store returned; cc is the Cache-Control value, "" for none.
htmlResponse(html, cc, writeOK) ==
    LET w1 == SetHeader(NewWriter, "Content-Type", Chars("text/html; charset=utf-8"))
        w2 == SetHeader(w1, "Content-Length", Itoa(Len(html)))
        w3 == IF cc # <<>> THEN SetHeader(w2, "Cache-Control", cc) ELSE w2
    IN  [w   |-> Write(WriteHeader(w3, 200), html, writeOK),
         ret |-> IF writeOK THEN RetNil ELSE WriteError]

\* An index macro call that passes on the text of every page parameter that
\* parses as an integer.
indexQuery_rawPage(c, r, page) ==
    LET pageNum  == IF Atoi(page).ok THEN page ELSE <<"1">>
        basePath == IF c.BasePath # <<>> THEN c.BasePath ELSE TrimSuffix(r.path, <<"/">>)
    IN  [ sql  |-> Chars("SELECT html FROM ") \o sanitizeIdentifier(c.IndexMacro)
                   \o Chars("(page := ") \o pageNum
                   \o Chars(", base_path := '") \o escapeSQLString(basePath) \o Chars("')"),
          args |-> <<>>,
          lits |-> <<basePath>> ]

\* The SQL of the index macro call for the page parameter.
indexQuery(c, r, page) ==
    LET p        == Atoi(page)
        pageNum  == IF p.ok /\ ~p.neg /\ p.digits # <<"0">> THEN p.digits ELSE <<"1">>
        basePath == IF c.BasePath # <<>> THEN c.BasePath ELSE TrimSuffix(r.path, <<"/">>)
    IN  [ sql  |-> Chars("SELECT html FROM ") \o sanitizeIdentifier(c.IndexMacro)
                   \o Chars("(page := ") \o pageNum
                   \o Chars(", base_path := '") \o escapeSQLString(basePath) \o Chars("')"),
          args |-> <<>>,
          lits |-> <<basePath>> ]

\* An index handler that answers 404 when the macro call returns no row.
serveIndex_notFound(c, r, page, env) ==
    LET op == StoreOp(c, "QueryRowContext", indexQuery(c, r, page))
    IN  IF env.row.kind = "norows" THEN
            Outcome("index", r, NewWriter, HandlerError(404), <<op>>, env.row)
        ELSE IF env.row.kind # "row" THEN
            Outcome("index", r, NewWriter, HandlerError(500), <<op>>, env.row)
        ELSE
            LET res == htmlResponse(env.row.html, c.CacheControl, env.writeOK)
            IN  Outcome("index", r, res.w, res.ret, <<op>>, env.row)

serveIndex(c, r, page, env) ==
    LET op == StoreOp(c, "QueryRowContext", indexQuery(c, r, page))
    IN  IF env.row.kind # "row" THEN
            Outcome("index", r, NewWriter, HandlerError(500), <<op>>, env.row)
        ELSE
            LET res == htmlResponse(env.row.html, c.CacheControl, env.writeOK)
            IN  Outcome("index", r, res.w, res.ret, <<op>>, env.row)

\* A search macro call that cuts the term after escaping it.
searchQuery_escapeFirst(c, r, searchTerm) ==
    LET escaped  == escapeSQLString(TrimSpace(searchTerm))
        term     == IF Len(escaped) > MaxSearchTerm
                    THEN SubSeq(escaped, 1, MaxSearchTerm) ELSE escaped
        basePath == IF c.BasePath # <<>> THEN c.BasePath
                    ELSE TrimSuffix(TrimSuffix(r.path, <<"/">>), Chars("/search"))
    IN  [ sql  |-> Chars("SELECT html FROM ") \o sanitizeIdentifier(c.SearchMacro)
                   \o Chars("(term := '") \o term
                   \o Chars("', base_path := '") \o escapeSQLString(basePath) \o Chars("')"),
          args |-> <<>>,
          lits |-> <<TrimSpace(searchTerm), basePath>> ]

\* The SQL of the search macro call for the raw search parameter.
searchQuery(c, r, searchTerm) ==
    LET trimmed  == TrimSpace(searchTerm)
        term     == IF Len(trimmed) > MaxSearchTerm
                    THEN SubSeq(trimmed, 1, MaxSearchTerm) ELSE trimmed
        basePath == IF c.BasePath # <<>> THEN c.BasePath
                    ELSE TrimSuffix(TrimSuffix(r.path, <<"/">>), Chars("/search"))
    IN  [ sql  |-> Chars("SELECT html FROM ") \o sanitizeIdentifier(c.SearchMacro)
                   \o Chars("(term := '") \o escapeSQLString(term)
                   \o Chars("', base_path := '") \o escapeSQLString(basePath) \o Chars("')"),
          args |-> <<>>,
          lits |-> <<term, basePath>> ]

\* A search response that carries the configured Cache-Control, as the index
\* response does.
serveSearch_configuredCache(c, r, searchTerm, env) ==
    LET op == StoreOp(c, "QueryRowContext", searchQuery(c, r, searchTerm))
    IN  IF env.row.kind # "row" THEN
            Outcome("search", r, NewWriter, HandlerError(500), <<op>>, env.row)
        ELSE
            LET res == htmlResponse(env.row.html, c.CacheControl, env.writeOK)
            IN  Outcome("search", r, res.w, res.ret, <<op>>, env.row)

serveSearch(c, r, searchTerm, env) ==
    LET op == StoreOp(c, "QueryRowContext", searchQuery(c, r, searchTerm))
    IN  IF env.row.kind # "row" THEN
            Outcome("search", r, NewWriter, HandlerError(500), <<op>>, env.row)
        ELSE
            LET res == htmlResponse(env.row.html, Chars("no-cache"), env.writeOK)
            IN  Outcome("search", r, res.w, res.ret, <<op>>, env.row)

\* The named argument serveTable builds for one key of the query, as the list
\* of zero or one [text, lits] parts.
tableParam(q, key) ==
    LET sanitizedKey == sanitizeIdentifier(key)
        value        == QueryGet(q, key)
    IN  IF sanitizedKey = <<>> THEN <<>>
        ELSE IF Atoi(value).ok THEN
            << [text |-> sanitizedKey \o Chars(" := ") \o value, lits |-> <<>>] >>
        ELSE
            << [text |-> sanitizedKey \o Chars(" := '") \o escapeSQLString(value) \o Chars("'"),
                lits |-> <<value>>] >>

\* The parts for the keys in the order the map iteration visits them.
RECURSIVE tableParams(_, _)
tableParams(q, order) ==
    IF order = <<>> THEN <<>>
    ELSE tableParam(q, Head(order)) \o tableParams(q, Tail(order))

RECURSIVE ConcatLits(_)
ConcatLits(parts) ==
    IF parts = <<>> THEN <<>> ELSE Head(parts).lits \o ConcatLits(Tail(parts))

\* The SQL of the table macro call; order is the iteration order of the
\* query map.
tableQuery(c, r, order) ==
    LET fromQuery == tableParams(r.query, order)
        basePath  == IF c.BasePath # <<>> THEN c.BasePath ELSE TrimSuffix(r.path, <<"/">>)
        paramParts ==
            IF QueryGet(r.query, Chars("base_path")) = <<>>
            THEN Append(fromQuery,
                        [text |-> Chars("base_path := '") \o escapeSQLString(basePath) \o Chars("'"),
                         lits |-> <<basePath>>])
            ELSE fromQuery
    IN  [ sql  |-> Chars("SELECT * FROM ") \o sanitizeIdentifier(c.TableMacro)
                   \o Chars("(")
                   \o Join([i \in DOMAIN paramParts |-> paramParts[i].text], Chars(", "))
                   \o Chars(")"),
          args |-> <<>>,
          lits |-> ConcatLits(paramParts) ]

\* formatTable's result for the grid the table writer rendered from the rows.
formatTable(grid) == Chars("<pre class=\"duckbox\">\n") \o grid \o Chars("</pre>")

\* A table handler that sends the status line and the headers once the query
\* has succeeded, before the rows are read.
serveTable_headersFirst(c, r, env) ==
    LET op == StoreOp(c, "QueryContext", tableQuery(c, r, env.order))
        w1 == SetHeader(NewWriter, "Content-Type", Chars("text/html; charset=utf-8"))
        w2 == SetHeader(w1, "Cache-Control", Chars("no-cache"))
    IN  IF env.rows.kind = "queryErr" THEN
            Outcome("table", r, NewWriter, HandlerError(500), <<op>>, env.rows)
        ELSE IF env.rows.kind # "ok" THEN
            Outcome("table", r, WriteHeader(w2, 200), HandlerError(500), <<op>>, env.rows)
        ELSE
            LET res == htmlResponse(formatTable(env.rows.grid), Chars("no-cache"), env.writeOK)
            IN  Outcome("table", r, res.w, res.ret, <<op>>, env.rows)

\* env.rows is what QueryContext and the iteration over the rows gave:
\* "queryErr", "scanErr", or "ok" with the rendered grid.
serveTable(c, r, env) ==
    LET op == StoreOp(c, "QueryContext", tableQuery(c, r, env.order))
    IN  IF env.rows.kind # "ok" THEN
            Outcome("table", r, NewWriter, HandlerError(500), <<op>>, env.rows)
        ELSE
            LET res == htmlResponse(formatTable(env.rows.grid), Chars("no-cache"), env.writeOK)
            IN  Outcome("table", r, res.w, res.ret, <<op>>, env.rows)

(***************************************************************************)
(* serveHealth.                                                            *)
(***************************************************************************)
\* checkDatabase, checkTable, checkMacro: the operation issued and the
\* CheckResult for its outcome ("ok", "norows" or "err") and latency.
checkOp(c, checkName) ==
    CASE checkName = "database" ->
           StoreOp(c, "PingContext", [sql |-> <<>>, args |-> <<>>, lits |-> <<>>])
      [] checkName = "table" ->
           StoreOp(c, "ExecContext",
                   [sql  |-> Chars("SELECT 1 FROM ") \o sanitizeIdentifier(c.Table)
                             \o Chars(" LIMIT 1"),
                    args |-> <<>>, lits |-> <<>>])
      [] OTHER ->
           StoreOp(c, "QueryRowContext",
                   [sql  |-> Chars("SELECT 1 FROM duckdb_functions() WHERE function_name = ? AND function_type = 'table_macro' LIMIT 1"),
                    args |-> << CASE checkName = "index_macro"  -> c.IndexMacro
                                  [] checkName = "search_macro" -> c.SearchMacro
                                  [] checkName = "record_macro" -> c.RecordMacro
                                  [] OTHER -> c.TableMacro >>,
                    lits |-> <<>>])

checkResult(c, checkName, outcome, latency) ==
    [ Status    |-> IF outcome = "ok" THEN Chars("ok") ELSE Chars("error"),
      Name      |-> CASE checkName = "database" -> <<>>
                      [] checkName = "table" -> c.Table
                      [] OTHER -> checkOp(c, checkName).args[1],
      LatencyMs |-> latency,
      Error     |-> CASE outcome = "ok" -> <<>>
                      [] outcome = "norows" /\ checkName \notin {"database", "table"} ->
                           Chars("macro not found")
                      [] OTHER -> Chars("store error") ]

\* The checks without the one for the table macro.
healthChecks_noTableMacro(c) ==
    <<"database", "table">>
    \o (IF c.IndexEnabled THEN <<"index_macro">> ELSE <<>>)
    \o (IF c.SearchEnabled THEN <<"search_macro">> ELSE <<>>)
    \o (IF c.RecordMacro # <<>> THEN <<"record_macro">> ELSE <<>>)

\* The checks serveHealth runs, in the order it runs them.
healthChecks(c) ==
    <<"database", "table">>
    \o (IF c.IndexEnabled THEN <<"index_macro">> ELSE <<>>)
    \o (IF c.SearchEnabled THEN <<"search_macro">> ELSE <<>>)
    \o (IF c.RecordMacro # <<>> THEN <<"record_macro">> ELSE <<>>)
    \o (IF c.TableMacro # <<>> THEN <<"table_macro">> ELSE <<>>)

\* json.Marshal of a string.
RECURSIVE jsonEscape(_)
jsonEscape(s) ==
    IF s = <<>> THEN <<>>
    ELSE (CASE Head(s) = "\"" -> Chars("\\\"")
            [] Head(s) = "\\" -> Chars("\\\\")
            [] Head(s) = "<"  -> Chars("\\u003c")
            [] Head(s) = ">"  -> Chars("\\u003e")
            [] Head(s) = "&"  -> Chars("\\u0026")
            [] OTHER -> <<Head(s)>>) \o jsonEscape(Tail(s))

jsonString(s) == <<"\"">> \o jsonEscape(s) \o <<"\"">>

\* json.Marshal of a CheckResult (name, latency_ms and error are omitempty).
jsonCheck(cr) ==
    Chars("{\"status\":") \o jsonString(cr.Status)
    \o (IF cr.Name # <<>> THEN Chars(",\"name\":") \o jsonString(cr.Name) ELSE <<>>)
    \o (IF cr.LatencyMs # 0 THEN Chars(",\"latency_ms\":") \o Itoa(cr.LatencyMs) ELSE <<>>)
    \o (IF cr.Error # <<>> THEN Chars(",\"error\":") \o jsonString(cr.Error) ELSE <<>>)
    \o Chars("}")

\* The check names in the order json.Marshal writes map keys (sorted).
SortedCheckNames ==
    <<"database", "index_macro", "record_macro", "search_macro", "table", "table_macro">>

\* json.Marshal of a HealthResponse.
jsonHealth(resp) ==
    LET names   == SelectSeq(SortedCheckNames, LAMBDA n : n \in DOMAIN resp.Checks)
        entries == [i \in DOMAIN names |->
                       jsonString(Chars(names[i])) \o <<":">> \o jsonCheck(resp.Checks[names[i]])]
    IN  Chars("{\"status\":") \o jsonString(resp.Status)
        \o Chars(",\"checks\":{") \o Join(entries, <<",">>) \o Chars("}")
        \o (IF resp.Pool # <<>>
            THEN Chars(",\"pool\":{\"open_connections\":") \o Itoa(resp.Pool[1])
                 \o Chars(",\"in_use\":") \o Itoa(resp.Pool[2])
                 \o Chars(",\"idle\":") \o Itoa(resp.Pool[3]) \o Chars("}")
            ELSE <<>>)
        \o Chars("}")

\* env.probes gives each check's outcome, env.latency the measured
\* milliseconds, env.pool the counters of db.Stats().
serveHealth(c, r, env) ==
    LET names      == healthChecks(c)
        checks     == [n \in {names[i] : i \in DOMAIN names} |->
                          checkResult(c, n, env.probes[n], env.latency)]
        allHealthy == \A n \in DOMAIN checks : checks[n].Status = Chars("ok")
        response   == [ Status |-> IF allHealthy THEN Chars("healthy") ELSE Chars("unhealthy"),
                        Checks |-> checks,
                        Pool   |-> IF c.HealthDetailed THEN env.pool ELSE <<>> ]
        statusCode == IF allHealthy THEN 200 ELSE 503
        jsonResponse == jsonHealth(response)
        w1 == SetHeader(NewWriter, "Content-Type", Chars("application/json"))
        w2 == SetHeader(w1, "Content-Length", Itoa(Len(jsonResponse)))
        w3 == SetHeader(w2, "Cache-Control", Chars("no-cache, no-store, must-revalidate"))
    IN  Outcome("health", r, Write(WriteHeader(w3, statusCode), jsonResponse, env.writeOK),
                IF env.writeOK THEN RetNil ELSE WriteError,
                [i \in DOMAIN names |-> checkOp(c, names[i])],
                [kind |-> "health", report |-> response,
                 probes |-> [n \in DOMAIN checks |-> env.probes[n]]])

(***************************************************************************)
(* ServeHTTP.                                                              *)
(***************************************************************************)
\* {basePath}/{suffix} as ServeHTTP builds the health and table paths.
routePath(c, suffix) ==
    IF c.BasePath # <<>> THEN c.BasePath \o <<"/">> \o suffix ELSE <<"/">> \o suffix

\* The "Extract ID from URL" block.
extractID(c, r) ==
    IF c.IDParam # <<>> THEN QueryGet(r.query, c.IDParam)
    ELSE IF ~HasSuffix(r.path, <<"/">>)
         THEN LET parts == Split(r.path, "/") IN parts[Len(parts)]
         ELSE <<>>

\* A router that looks at the search parameter before the health and table
\* paths.
ServeHTTP_searchFirst(c, r, env) ==
    IF QueryGet(r.query, c.SearchParam) # <<>> /\ c.SearchEnabled THEN
        serveSearch(c, r, QueryGet(r.query, c.SearchParam), env)
    ELSE IF c.HealthEnabled /\ r.path = routePath(c, c.HealthPath) THEN
        serveHealth(c, r, env)
    ELSE IF c.TableMacro # <<>> /\ HasPrefix(r.path, routePath(c, c.TablePath)) THEN
        serveTable(c, r, env)
    ELSE LET id == extractID(c, r)
         IN  IF id = <<>> /\ c.IndexEnabled THEN
                 serveIndex(c, r, QueryGet(r.query, Chars("page")), env)
             ELSE IF id = <<>> THEN
                 Outcome("bad_request", r, NewWriter, HandlerError(400), <<>>, NoStore)
             ELSE
                 serveRecord(c, r, id, env)

\* A router without the missing-identifier test: the lookup runs with an
\* empty identifier.
ServeHTTP_noIDCheck(c, r, env) ==
    IF c.HealthEnabled /\ r.path = routePath(c, c.HealthPath) THEN
        serveHealth(c, r, env)
    ELSE IF c.TableMacro # <<>> /\ HasPrefix(r.path, routePath(c, c.TablePath)) THEN
        serveTable(c, r, env)
    ELSE IF QueryGet(r.query, c.SearchParam) # <<>> /\ c.SearchEnabled THEN
        serveSearch(c, r, QueryGet(r.query, c.SearchParam), env)
    ELSE LET id == extractID(c, r)
         IN  IF id = <<>> /\ c.IndexEnabled THEN
                 serveIndex(c, r, QueryGet(r.query, Chars("page")), env)
             ELSE
                 serveRecord(c, r, id, env)

\* ServeHTTP of handler c for request r; env holds what the store and the
\* connection do during the request.
ServeHTTP(c, r, env) ==
    IF c.HealthEnabled /\ r.path = routePath(c, c.HealthPath) THEN
        serveHealth(c, r, env)
    ELSE IF c.TableMacro # <<>> /\ HasPrefix(r.path, routePath(c, c.TablePath)) THEN
        serveTable(c, r, env)
    ELSE IF QueryGet(r.query, c.SearchParam) # <<>> /\ c.SearchEnabled THEN
        serveSearch(c, r, QueryGet(r.query, c.SearchParam), env)
    ELSE LET id == extractID(c, r)
         IN  IF id = <<>> /\ c.IndexEnabled THEN
                 serveIndex(c, r, QueryGet(r.query, Chars("page")), env)
             ELSE IF id = <<>> THEN
                 Outcome("bad_request", r, NewWriter, HandlerError(400), <<>>, NoStore)
             ELSE
                 serveRecord(c, r, id, env)

VARIABLES
    h,      \* the handler struct: configuration, db handle, timeout
    phase,  \* "new", "serving" (Provision succeeded), "failed", "cleaned"
    last,   \* the request being answered and what ServeHTTP did for it
    fn,     \* the string function under test and its arguments and result
    boot    \* what Provision did: its error, the handle, the init statements run;
            \* and the number of calls of h.db.Close() so far

vars == <<h, phase, last, fn, etags, boot>>

\* No request has been handled.
Idle == [route |-> "idle"]

\* No string function is applied.
NoFn == [op |-> "none"]

(***************************************************************************)
(* The requests and the store behaviours of the model.                     *)
(***************************************************************************)
Paths ==
    { Chars("/_health"), Chars("/w/_health"), Chars("/_table"),
      Chars("/w/_table/x"), Chars("/w/"), Chars("/w/o'k"), Chars("/w/search") }

Queries ==
    { <<>>,
      << <<Chars("q"), Chars(" it's ")>> >>,
      << <<Chars("q"), <<>>>>, <<Chars("page"), Chars("2")>> >>,
      << <<Chars("id"), Chars("o'k")>> >>,
      << <<Chars("n"), Chars("12")>>, <<Chars("s-1"), Chars("o'k")>> >>,
      << <<Chars("base_path"), Chars("/b'")>>, <<Chars("--"), Chars("x")>> >> }

\* Search values around the length limit: 250 times "a"; 200 times "a"
\* between spaces; and a padded value whose 200th character is a quote.
Repeat(ch, n) == [i \in 1..n |-> ch]

LongSearchValues ==
    { Repeat("a", 250),
      <<" ">> \o Repeat("a", MaxSearchTerm) \o <<" ">>,
      <<" ">> \o Repeat("a", MaxSearchTerm - 1) \o Chars("'bb ") }

\* Queries of table requests: a base_path parameter with an empty value, and
\* a negative integer next to a decimal fraction.
TableQueries ==
    { << <<Chars("base_path"), <<>>>> >>,
      << <<Chars("a"), Chars("-3")>>, <<Chars("b"), Chars("1.5")>> >> }

\* Page parameters of index requests: not a number, zero, negative, with
\* leading zeros, signed, with a space, and the ends of the int range.
PageValues ==
    { Chars("abc"), Chars("0"), Chars("-4"), Chars("007"), Chars("+5"), Chars(" 3"),
      Chars("9223372036854775807"), Chars("9223372036854775808") }

\* If-None-Match header values: the wildcard, and a list with padding.
IfNoneMatchValues ==
    { <<"*">>, Chars("\"zz\" ,  ") \o etags[<<>>] \o <<" ">> }

\* The requests of the model: every path with every query, conditional
\* requests for the paths and queries that reach a record, the index or the
\* search, the searches for the long values, the table requests, and the
\* index requests for the page values.
Requests ==
    { [path |-> p, query |-> q, inm |-> <<>>] : p \in Paths, q \in Queries }
    \cup
    { [path |-> p, query |-> q, inm |-> m] :
        p \in {Chars("/w/"), Chars("/w/o'k")},
        q \in { <<>>, << <<Chars("q"), Chars(" it's ")>> >>, << <<Chars("id"), Chars("o'k")>> >> },
        m \in IfNoneMatchValues }
    \cup
    { [path |-> Chars("/w/"), query |-> << <<Chars("q"), v>> >>, inm |-> <<>>] :
        v \in LongSearchValues }
    \cup
    { [path |-> Chars("/_table"), query |-> q, inm |-> <<>>] : q \in TableQueries }
    \cup
    { [path |-> Chars("/w/"), query |-> << <<Chars("page"), v>> >>, inm |-> <<>>] :
        v \in PageValues }

\* The orders in which a map iteration can visit the keys K.
Orders(K) ==
    { o \in [1..Cardinality(K) -> K] : \A i, j \in DOMAIN o : o[i] = o[j] => i = j }

\* What QueryRowContext(...).Scan gives: a row, sql.ErrNoRows, or another
\* error, caused by the query itself, by the deadline of the context, or by
\* the cancellation of the request.
RowOutcomes ==
    { [kind |-> "row", html |-> html] : html \in Contents }
    \cup { [kind |-> "norows"] }
    \cup { [kind |-> "err", cause |-> x] : x \in {"query", "deadline", "canceled"} }

\* What QueryContext and formatTable give: an error of QueryContext, an error
\* while the rows are read (rows.Scan, rows.Err), or the rendered grid.
RowsOutcomes ==
    { [kind |-> k, cause |-> x] :
        k \in {"queryErr", "scanErr"}, x \in {"query", "deadline", "canceled"} }
    \cup { [kind |-> "ok", grid |-> Chars("n\n\n1\n")] }

\* The outcomes of S that can happen under handler c: the deadline can only
\* pass when the context of the operation has one.
PossibleOutcomes(c, S) ==
    { x \in S : (x.kind \in {"err", "queryErr", "scanErr"} /\ x.cause = "deadline")
                   => c.timeout > 0 }

\* An environment in which every store operation fails; its fields are
\* replaced by the choices that matter for the route of the request.
BaseEnv(r) ==
    [ row     |-> [kind |-> "err", cause |-> "query"],
      rows    |-> [kind |-> "queryErr", cause |-> "query"],
      order   |-> CHOOSE o \in Orders(QueryKeys(r.query)) : TRUE,
      probes  |-> [n \in {SortedCheckNames[i] : i \in DOMAIN SortedCheckNames} |-> "err"],
      latency |-> 0,
      pool    |-> <<0, 0, 0>>,
      writeOK |-> TRUE ]

\* The behaviours of the store and the connection during request r.
EnvChoices(c, r) ==
    LET base  == BaseEnv(r)
        route == ServeHTTP(c, r, base).route
        names == healthChecks(c)
    IN  CASE route = "health" ->
               { [base EXCEPT !.probes = p @@ base.probes, !.latency = l,
                              !.pool = s, !.writeOK = ok] :
                   p \in { f \in [{names[i] : i \in DOMAIN names} -> {"ok", "norows", "err"}] :
                             f["database"] # "norows" /\ f["table"] # "norows" },
                   l \in {0, 3},
                   s \in IF c.HealthDetailed THEN {<<1, 0, 1>>, <<2, 1, 1>>} ELSE {<<0, 0, 0>>},
                   ok \in BOOLEAN }
          [] route = "table" ->
               { [base EXCEPT !.rows = rs, !.order = o, !.writeOK = ok] :
                   rs \in PossibleOutcomes(c, RowsOutcomes),
                   o \in Orders(QueryKeys(r.query)), ok \in BOOLEAN }
          [] route = "bad_request" -> {base}
          [] OTHER ->
               { [base EXCEPT !.row = ro, !.writeOK = ok] :
                   ro \in PossibleOutcomes(c, RowOutcomes), ok \in BOOLEAN }

(***************************************************************************)
(* parseSQLStatements.                                                     *)
(***************************************************************************)
\* The parser before the first character: no statement, an empty builder,
\* all flags false, prev the zero rune.
ParserStart ==
    [ statements     |-> <<>>,
      current        |-> <<>>,
      inSingleQuote  |-> FALSE,
      inDoubleQuote  |-> FALSE,
      inLineComment  |-> FALSE,
      inBlockComment |-> FALSE,
      prev           |-> "" ]

\* current.Reset(); current.WriteString(s[:len(s)-1]) when s is not empty.
Retract(current) ==
    IF current = <<>> THEN current ELSE SubSeq(current, 1, Len(current) - 1)

\* append(statements, stmt) for the trimmed text when it is not empty.
Emit(statements, current) ==
    IF TrimSpace(current) # <<>> THEN Append(statements, TrimSpace(current)) ELSE statements

\* A loop body that ends the statement at every semicolon outside a comment,
\* inside a literal too.
parseRune_splitInLiteral(p, r) ==
    IF ~p.inSingleQuote /\ ~p.inDoubleQuote /\ ~p.inBlockComment /\ r = "-" /\ p.prev = "-" THEN
        [p EXCEPT !.inLineComment = TRUE, !.current = Retract(@), !.prev = r]
    ELSE IF p.inLineComment /\ r = "\n" THEN
        [p EXCEPT !.inLineComment = FALSE, !.current = Append(@, " "), !.prev = r]
    ELSE IF p.inLineComment THEN
        [p EXCEPT !.prev = r]
    ELSE IF ~p.inSingleQuote /\ ~p.inDoubleQuote /\ ~p.inBlockComment /\ r = "*" /\ p.prev = "/" THEN
        [p EXCEPT !.inBlockComment = TRUE, !.current = Retract(@), !.prev = r]
    ELSE IF p.inBlockComment /\ r = "/" /\ p.prev = "*" THEN
        [p EXCEPT !.inBlockComment = FALSE, !.current = Append(@, " "), !.prev = r]
    ELSE IF p.inBlockComment THEN
        [p EXCEPT !.prev = r]
    ELSE
        LET single == IF r = "'" /\ ~p.inDoubleQuote /\ p.prev # "\\"
                      THEN ~p.inSingleQuote ELSE p.inSingleQuote
            double == IF r = "\"" /\ ~single /\ p.prev # "\\"
                      THEN ~p.inDoubleQuote ELSE p.inDoubleQuote
            q      == [p EXCEPT !.inSingleQuote = single, !.inDoubleQuote = double, !.prev = r]
        IN  IF r = ";" THEN
                [q EXCEPT !.statements = Emit(@, p.current), !.current = <<>>]
            ELSE
                [q EXCEPT !.current = Append(@, r)]

\* The body of the loop of parseSQLStatements for the character r.
parseRune(p, r) ==
    IF ~p.inSingleQuote /\ ~p.inDoubleQuote /\ ~p.inBlockComment /\ r = "-" /\ p.prev = "-" THEN
        [p EXCEPT !.inLineComment = TRUE, !.current = Retract(@), !.prev = r]
    ELSE IF p.inLineComment /\ r = "\n" THEN
        [p EXCEPT !.inLineComment = FALSE, !.current = Append(@, " "), !.prev = r]
    ELSE IF p.inLineComment THEN
        [p EXCEPT !.prev = r]
    ELSE IF ~p.inSingleQuote /\ ~p.inDoubleQuote /\ ~p.inBlockComment /\ r = "*" /\ p.prev = "/" THEN
        [p EXCEPT !.inBlockComment = TRUE, !.current = Retract(@), !.prev = r]
    ELSE IF p.inBlockComment /\ r = "/" /\ p.prev = "*" THEN
        [p EXCEPT !.inBlockComment = FALSE, !.current = Append(@, " "), !.prev = r]
    ELSE IF p.inBlockComment THEN
        [p EXCEPT !.prev = r]
    ELSE
        LET single == IF r = "'" /\ ~p.inDoubleQuote /\ p.prev # "\\"
                      THEN ~p.inSingleQuote ELSE p.inSingleQuote
            double == IF r = "\"" /\ ~single /\ p.prev # "\\"
                      THEN ~p.inDoubleQuote ELSE p.inDoubleQuote
            q      == [p EXCEPT !.inSingleQuote = single, !.inDoubleQuote = double, !.prev = r]
        IN  IF r = ";" /\ ~single /\ ~double THEN
                [q EXCEPT !.statements = Emit(@, p.current), !.current = <<>>]
            ELSE
                [q EXCEPT !.current = Append(@, r)]

\* The parser after the characters of content from position i on.
RECURSIVE parseFrom(_, _, _)
parseFrom(content, i, p) ==
    IF i > Len(content) THEN p
    ELSE LET next == parseRune(p, content[i])
         IN  IF Len(next.current) >= 0 THEN parseFrom(content, i + 1, next) ELSE next

\* "Add final statement if no trailing semicolon".
parseEnd(p) == Emit(p.statements, p.current)

parseSQLStatements(content) == parseEnd(parseFrom(content, 1, ParserStart))

(***************************************************************************)
(* Provision and Cleanup.                                                  *)
(***************************************************************************)
\* The "Set defaults" block of Provision.
WithDefaults(c) ==
    [ c EXCEPT
        !.HTMLColumn   = IF @ = <<>> THEN Chars("html") ELSE @,
        !.IDColumn     = IF @ = <<>> THEN Chars("id") ELSE @,
        !.QueryTimeout = IF @ = <<>> THEN Chars("5s") ELSE @,
        !.IndexMacro   = IF @ = <<>> THEN Chars("render_index") ELSE @,
        !.SearchMacro  = IF @ = <<>> THEN Chars("render_search") ELSE @,
        !.SearchParam  = IF @ = <<>> THEN Chars("q") ELSE @,
        !.TablePath    = IF @ = <<>> THEN Chars("_table") ELSE @,
        !.HealthPath   = IF @ = <<>> THEN Chars("_health") ELSE @ ]

\* strings.Fields: the maximal stretches of s without white space.
RECURSIVE FieldsFrom(_, _)
FieldsFrom(s, cur) ==
    IF s = <<>> THEN (IF cur = <<>> THEN <<>> ELSE <<cur>>)
    ELSE IF Head(s) \in WhiteSpace
         THEN (IF cur = <<>> THEN <<>> ELSE <<cur>>) \o FieldsFrom(Tail(s), <<>>)
         ELSE FieldsFrom(Tail(s), Append(cur, Head(s)))

Fields(s) == FieldsFrom(s, <<>>)

truncateForLog(s, maxLen) ==
    LET n == Join(Fields(s), <<" ">>)
    IN  IF Len(n) <= maxLen THEN n ELSE SubSeq(n, 1, maxLen) \o Chars("...")

\* No init statement has been run and none has failed.
NoInit == [err |-> "nil", index |-> 0, statement |-> <<>>, execs |-> <<>>]

\* A loop over the statements that goes on after a failure and reports the
\* first one.
RECURSIVE execStatements_keepGoing(_, _, _, _)
execStatements_keepGoing(statements, i, failing, res) ==
    IF i > Len(statements) THEN res
    ELSE LET stmt == TrimSpace(statements[i])
             ran  == Append(res.execs, [index |-> i, stmt |-> stmt, ok |-> i \notin failing])
         IN  IF stmt = <<>> THEN execStatements_keepGoing(statements, i + 1, failing, res)
             ELSE IF i \in failing /\ res.err = "nil" THEN
                 execStatements_keepGoing(statements, i + 1, failing,
                     [err |-> "failed to execute statement", index |-> i,
                      statement |-> truncateForLog(stmt, 200), execs |-> ran])
             ELSE execStatements_keepGoing(statements, i + 1, failing, [res EXCEPT !.execs = ran])

\* The loop of executeInitSQL from statement i on: h.db.Exec for each
\* statement in turn; failing holds the indexes of the statements the store
\* rejects; res.execs lists the calls of Exec made so far.
RECURSIVE execStatements(_, _, _, _)
execStatements(statements, i, failing, res) ==
    IF i > Len(statements) THEN res
    ELSE LET stmt == TrimSpace(statements[i])
             ran  == Append(res.execs, [index |-> i, stmt |-> stmt, ok |-> i \notin failing])
         IN  IF stmt = <<>> THEN execStatements(statements, i + 1, failing, res)
             ELSE IF i \in failing THEN
                 [err |-> "failed to execute statement", index |-> i,
                  statement |-> truncateForLog(stmt, 200), execs |-> ran]
             ELSE execStatements(statements, i + 1, failing, [res EXCEPT !.execs = ran])

\* executeInitSQL for a file: whether os.Open and the scanner succeed, the
\* content read, and the indexes of the statements the store rejects.
executeInitSQL(file) ==
    IF ~file.openOK THEN [NoInit EXCEPT !.err = "failed to open init SQL file"]
    ELSE IF ~file.readOK THEN [NoInit EXCEPT !.err = "failed to read init SQL file"]
    ELSE execStatements(parseSQLStatements(file.content), 1, file.failing, NoInit)

\* The init script of the model and its statements.
InitContent == Chars("create t;\n-- rows\ninsert  t; create m\n")

InitScript == << Chars("create t"), Chars("insert  t"), Chars("create m") >>

\* The init files of the model: one that cannot be opened, one that cannot
\* be read, an empty script, and InitContent with every choice of statements
\* the store rejects.
InitFiles ==
    { [openOK |-> o, readOK |-> ~o, content |-> <<>>, failing |-> {}] : o \in BOOLEAN }
    \cup { [openOK |-> TRUE, readOK |-> TRUE, content |-> <<>>, failing |-> {}] }
    \cup { [openOK |-> TRUE, readOK |-> TRUE, content |-> InitContent, failing |-> F] :
             F \in SUBSET (1..Len(InitScript)) }

\* Provision has not run.
NoBoot == [err |-> "nil", opened |-> FALSE, pinged |-> FALSE, script |-> <<>>, init |-> NoInit,
           closes |-> 0]

\* A Close that leaves the handle as it is.
closeHandle_none(c) == c

\* h.db.Close()
closeHandle(c) == [c EXCEPT !.db = "closed"]

\* Provision: defaults, timeout, required table, open, ping, init script.
\* openOK and pingOK are the outcomes of sql.Open and db.Ping, file is the
\* init file as executeInitSQL finds it.
Provision ==
    /\ phase = "new"
    /\ \E openOK, pingOK \in BOOLEAN, file \in InitFiles :
         LET d      == WithDefaults(h)
             dur    == ParseDuration(d.QueryTimeout)
             t      == [d EXCEPT !.timeout = dur.d]
             opened == [t EXCEPT !.db = "open"]
             init   == executeInitSQL(file)
         IN  IF ~dur.ok THEN
                 /\ h' = t /\ phase' = "failed"
                 /\ boot' = [NoBoot EXCEPT !.err = "invalid query_timeout"]
             ELSE IF t.Table = <<>> THEN
                 /\ h' = t /\ phase' = "failed"
                 /\ boot' = [NoBoot EXCEPT !.err = "table name is required"]
             ELSE IF ~openOK THEN
                 /\ h' = t /\ phase' = "failed"
                 /\ boot' = [NoBoot EXCEPT !.err = "failed to open database"]
             ELSE IF ~pingOK THEN
                 /\ h' = closeHandle(opened) /\ phase' = "failed"
                 /\ boot' = [NoBoot EXCEPT !.err = "failed to ping database", !.opened = TRUE,
                                           !.closes = 1]
             ELSE IF t.InitSQLFile # <<>> /\ init.err # "nil" THEN
                 /\ h' = closeHandle(opened) /\ phase' = "failed"
                 /\ boot' = [err |-> "failed to execute init SQL file", opened |-> TRUE,
                             pinged |-> TRUE, script |-> parseSQLStatements(file.content), init |-> init,
                             closes |-> 1]
             ELSE
                 /\ h' = opened /\ phase' = "serving"
                 /\ boot' = [err |-> "nil", opened |-> TRUE, pinged |-> TRUE,
                             script |-> IF t.InitSQLFile # <<>>
                                        THEN parseSQLStatements(file.content) ELSE <<>>,
                             init |-> IF t.InitSQLFile # <<>> THEN init ELSE NoInit,
                             closes |-> 0]
    /\ UNCHANGED <<last, fn, etags>>

\* Cleanup: closes the handle when there is one.  Caddy calls it when the
\* handler is taken out of service, and after a failed Provision.
Cleanup ==
    /\ phase \in {"serving", "failed"}
    /\ last = Idle
    /\ h' = IF h.db # "nil" THEN closeHandle(h) ELSE h
    /\ boot' = IF h.db # "nil" THEN [boot EXCEPT !.closes = @ + 1] ELSE boot
    /\ phase' = "cleaned"
    /\ UNCHANGED <<last, fn, etags>>

\* A handler whose ServeHTTP keeps the path of the request it serves as its
\* base path.
servedHandler_keepsPath(c, r) == [c EXCEPT !.BasePath = r.path]

\* The handler after ServeHTTP has worked on request r: ServeHTTP and the
\* functions it calls read the fields of h and assign none.
servedHandler(c, r) == c

\* A request arrives while the handler is in service and is answered.
HandleRequest ==
    /\ phase = "serving"
    /\ last = Idle
    /\ \E r \in Requests : \E env \in EnvChoices(h, r) :
         /\ last' = ServeHTTP(h, r, env)
         /\ h' = servedHandler(h, r)
    /\ UNCHANGED <<phase, fn, etags, boot>>

\* The client repeats the unconditional request it got a 200 record response
\* for, sending the ETag of that response as If-None-Match.
Revalidate ==
    /\ phase = "serving"
    /\ last.route = "record"
    /\ last.w.status = 200
    /\ last.req.inm = <<>>
    /\ last.req.query \in { <<>>, << <<Chars("id"), Chars("o'k")>> >> }
    /\ LET r == [last.req EXCEPT !.inm = last.w.hdr["ETag"]]
       IN  /\ \E env \in EnvChoices(h, r) : last' = ServeHTTP(h, r, env)
           /\ h' = servedHandler(h, r)
    /\ UNCHANGED <<phase, fn, etags, boot>>

\* The exchange is over.
Done ==
    /\ last # Idle
    /\ last' = Idle
    /\ UNCHANGED <<h, phase, fn, etags, boot>>

Init ==
    /\ etags = [html \in Contents |-> computeETag(html)]
    /\ h \in {Configure(S) : S \in SettingChoices}
    /\ phase = "new"
    /\ last = Idle
    /\ fn = NoFn
    /\ boot = NoBoot

Next == Provision \/ HandleRequest \/ Revalidate \/ Done \/ Cleanup

Spec == Init /\ [][Next]_vars

(***************************************************************************)
(* Two requests served at the same time.  Each goroutine of the server runs *)
(* ServeHTTP on the one handler; a request passes the routing, the call of  *)
(* the store and the writing of the response as separate steps, and the     *)
(* steps of the two requests interleave freely.                            *)
(***************************************************************************)
Workers == {1, 2}

IdleSlot == [pc |-> "idle"]

\* The requests in flight, one per worker.
Slots == IF fn = NoFn THEN [k \in Workers |-> IdleSlot] ELSE fn.slots

\* The settings and the requests of the concurrent runs.
ParSettingChoices ==
    { S \in SettingChoices :
        /\ {v.feature : v \in S} \in { {"search"}, {"index"}, {"table", "base"} }
        /\ \A v \in S : "TablePath" \notin DOMAIN v.set }

\* The outcomes of the store for a request whose client stays connected.
ParEnvChoices(c, r) == { env \in EnvChoices(c, r) : env.writeOK }

ParRequests ==
    { [path |-> p, query |-> q, inm |-> <<>>] :
        p \in {Chars("/w/"), Chars("/w/o'k"), Chars("/_table")},
        q \in { <<>>, << <<Chars("q"), Chars(" it's ")>> >> } }

\* A worker takes a request; env is what the store and the client will do
\* for it, seen the handler as the request finds it.  The routing decision
\* is taken.
Arrive ==
    /\ phase = "serving"
    /\ \E k \in Workers : \E r \in ParRequests : \E env \in ParEnvChoices(h, r) :
         /\ Slots[k].pc = "idle"
         /\ fn' = [op |-> "ServeHTTP",
                   slots |-> [Slots EXCEPT ![k] =
                                [pc |-> "routed", req |-> r, env |-> env, seen |-> h,
                                 route |-> ServeHTTP(h, r, env).route]]]
         /\ h' = servedHandler(h, r)
    /\ UNCHANGED <<phase, last, etags, boot>>

\* The worker builds the SQL of its request and calls the store.
Query ==
    /\ \E k \in Workers :
         /\ Slots[k].pc = "routed"
         /\ LET s == Slots[k]
                out == ServeHTTP(h, s.req, s.env)
            IN  /\ fn' = [fn EXCEPT !.slots[k] =
                            [pc |-> "queried", req |-> s.req, env |-> s.env, seen |-> s.seen,
                             route |-> s.route, ops |-> out.ops]]
                /\ h' = servedHandler(h, s.req)
    /\ UNCHANGED <<phase, last, etags, boot>>

\* The worker writes the response and returns.
Answer ==
    /\ \E k \in Workers :
         /\ Slots[k].pc = "queried"
         /\ LET s == Slots[k]
                out == ServeHTTP(h, s.req, s.env)
            IN  /\ fn' = [fn EXCEPT !.slots[k] =
                            [pc |-> "answered", req |-> s.req, env |-> s.env, seen |-> s.seen,
                             route |-> s.route, ops |-> s.ops, w |-> out.w, ret |-> out.ret]]
                /\ h' = servedHandler(h, s.req)
    /\ UNCHANGED <<phase, last, etags, boot>>

\* The exchange of the worker is over.
Finish ==
    /\ \E k \in Workers :
         /\ Slots[k].pc = "answered"
         /\ fn' = [fn EXCEPT !.slots[k] = IdleSlot]
    /\ UNCHANGED <<h, phase, last, etags, boot>>

InitPar ==
    /\ etags = [html \in Contents |-> computeETag(html)]
    /\ h \in {Configure(S) : S \in ParSettingChoices}
    /\ phase = "new"
    /\ last = Idle
    /\ fn = NoFn
    /\ boot = NoBoot

NextPar == Provision \/ Arrive \/ Query \/ Answer \/ Finish

SpecPar == InitPar /\ [][NextPar]_vars

(***************************************************************************)
(* The string functions applied to the strings of the model.               *)
(***************************************************************************)
IdentifierInputs ==
    StrsUpTo({"a", "Z", "7", "_", "-", ";", " ", "'"}, MaxStrLen)
    \cup { Chars("html; DROP TABLE users;--") }

EscapeInputs ==
    StrsUpTo({"'", "a", "\\", " "}, MaxStrLen) \cup { Chars("O'Brien's ''") }

HeaderInputs ==
    StrsUpTo({"*", ",", " ", "a"}, MaxStrLen) \cup { Chars("\"abc\", \"def\"") }

FingerprintInputs ==
    StrsUpTo({"a", "*"}, 2) \cup { Chars("\"def\"") }

ApplySanitizeIdentifier ==
    /\ fn = NoFn
    /\ \E s \in IdentifierInputs :
         fn' = [op |-> "sanitizeIdentifier", in |-> s, out |-> sanitizeIdentifier(s)]
    /\ UNCHANGED <<h, phase, last, etags, boot>>

ApplyEscapeSQLString ==
    /\ fn = NoFn
    /\ \E s \in EscapeInputs :
         fn' = [op |-> "escapeSQLString", in |-> s, out |-> escapeSQLString(s)]
    /\ UNCHANGED <<h, phase, last, etags, boot>>

ApplyEtagMatches ==
    /\ fn = NoFn
    /\ \E m \in HeaderInputs : \E e \in FingerprintInputs :
         fn' = [op |-> "etagMatches", in |-> m, etag |-> e, out |-> etagMatches(m, e)]
    /\ UNCHANGED <<h, phase, last, etags, boot>>

InitStr ==
    /\ etags = [html \in Contents |-> computeETag(html)]
    /\ h = ZeroConfig
    /\ phase = "new"
    /\ last = Idle
    /\ fn = NoFn
    /\ boot = NoBoot

NextStr == ApplySanitizeIdentifier \/ ApplyEscapeSQLString \/ ApplyEtagMatches

SpecStr == InitStr /\ [][NextStr]_vars

(***************************************************************************)
(* parseSQLStatements applied to the scripts of the model, one character   *)
(* of the script at a time.                                                *)
(***************************************************************************)
\* The characters the parser distinguishes, and a letter.
ScriptAlphabet == {"-", "/", "*", "'", ";", "\n", "a"}

\* Scripts of the tests of the parser, and scripts with dashes, stars and
\* slashes next to comments.
NamedScripts ==
    { Chars("SELECT 1; -- c\nSELECT 2;"),
      Chars("SELECT /* c */ 1; x"),
      Chars("SELECT 'a; b'; x"),
      Chars("SELECT \"a; b\"; x"),
      Chars("-- c\n/* d */"),
      Chars("x '--' \"/*\" y;"),
      Chars("a -- c ; d\nb /* ; */ e"),
      Chars("a--- c\nb"),
      Chars("x 'a'--- c\n;y"),
      Chars("/*/ x */"),
      Chars("a/* c */* b") }

ScriptInputs == StrsUpTo(ScriptAlphabet, MaxScriptLen) \cup NamedScripts

\* parseSQLStatements is called with a script.
StartParse ==
    /\ fn = NoFn
    /\ \E s \in ScriptInputs :
         fn' = [op |-> "parseSQLStatements", in |-> s, i |-> 1, p |-> ParserStart,
                done |-> FALSE, out |-> <<>>]
    /\ UNCHANGED <<h, phase, last, etags, boot>>

\* One pass of the loop: the next character of the script.
ParseRune ==
    /\ fn.op = "parseSQLStatements"
    /\ ~fn.done
    /\ fn.i <= Len(fn.in)
    /\ fn' = [fn EXCEPT !.p = parseRune(@, fn.in[fn.i]), !.i = @ + 1]
    /\ UNCHANGED <<h, phase, last, etags, boot>>

\* The end of the script: the final statement, and the return.
ParseEnd ==
    /\ fn.op = "parseSQLStatements"
    /\ ~fn.done
    /\ fn.i > Len(fn.in)
    /\ fn' = [fn EXCEPT !.done = TRUE, !.out = parseEnd(fn.p)]
    /\ UNCHANGED <<h, phase, last, etags, boot>>

NextSQL == StartParse \/ ParseRune \/ ParseEnd

SpecSQL == InitStr /\ [][NextSQL]_vars

(***************************************************************************)
(* Routing (C1, C2, C3).                                                   *)
(***************************************************************************)
\* {basePath}/{suffix}
ClaimPath(c, suffix) == c.BasePath \o <<"/">> \o suffix

ClaimHealthPre(c, r) == c.HealthEnabled /\ r.path = ClaimPath(c, c.HealthPath)

ClaimTablePre(c, r) ==
    c.TableMacro # <<>> /\ HasPrefix(r.path, ClaimPath(c, c.TablePath))

ClaimSearchPre(c, r) == c.SearchEnabled /\ QueryGet(r.query, c.SearchParam) # <<>>

\* The request has no identifier: the id query parameter is absent or empty
\* when one is configured, and otherwise the path ends in "/".
ClaimNoIdentifier(c, r) ==
    IF c.IDParam # <<>> THEN QueryGet(r.query, c.IDParam) = <<>>
    ELSE r.path[Len(r.path)] = "/"

\* The first category whose precondition holds, "none" when there is none.
ClaimCategory(c, r) ==
    CASE ClaimHealthPre(c, r) -> "health"
      [] ~ClaimHealthPre(c, r) /\ ClaimTablePre(c, r) -> "table"
      [] ~ClaimHealthPre(c, r) /\ ~ClaimTablePre(c, r) /\ ClaimSearchPre(c, r) -> "search"
      [] OTHER -> IF ~ClaimNoIdentifier(c, r) THEN "record"
                  ELSE IF c.IndexEnabled THEN "index" ELSE "none"

\* sub occurs in s.
ClaimContains(s, sub) ==
    \E i \in 0..(Len(s) - Len(sub)) : SubSeq(s, i + 1, i + Len(sub)) = sub

\* The category an outcome shows by the store operations issued for it.
ClaimServed(o) ==
    IF o.ops = <<>> THEN "none"
    ELSE IF o.ops[1].call = "PingContext" THEN "health"
    ELSE IF o.ops[1].call = "QueryContext" THEN "table"
    ELSE IF ClaimContains(o.ops[1].sql, Chars("(term := '")) THEN "search"
    ELSE IF ClaimContains(o.ops[1].sql, Chars("(page := ")) THEN "index"
    ELSE "record"

\* C1: every request is handled as the first category whose precondition
\* holds, in the order health check, tabular report, search, index, record
\* lookup; a health report is produced exactly when health is enabled and the
\* path is exactly {basePath}/{healthPath}.
C1_RoutingPrecedence ==
    last # Idle =>
        /\ ClaimCategory(h, last.req) # "none" =>
             /\ last.route = ClaimCategory(h, last.req)
             /\ ClaimServed(last) = ClaimCategory(h, last.req)
        /\ (last.store.kind = "health") <=> ClaimHealthPre(h, last.req)
        /\ ("Content-Type" \in DOMAIN last.w.hdr
              /\ last.w.hdr["Content-Type"] = Chars("application/json"))
           <=> ClaimHealthPre(h, last.req)

\* A health report for a request that also matches the table-path prefix.
C1_Witness ==
    /\ last # Idle
    /\ last.route = "health"
    /\ last.w.status = 200
    /\ ClaimTablePre(h, last.req)

\* C2: when no category precondition holds, the request is passed to the next
\* handler and the handler writes neither a response nor an error.
C2_PassesToNext ==
    (last # Idle /\ ClaimCategory(h, last.req) = "none") =>
        /\ last.next
        /\ last.w = NewWriter
        /\ last.ret = RetNil

ClaimIdentifier(c, r) ==
    IF c.IDParam # <<>> THEN QueryGet(r.query, c.IDParam)
    ELSE LET k == CHOOSE k \in DOMAIN r.path :
                      r.path[k] = "/" /\ \A j \in (k + 1)..Len(r.path) : r.path[j] # "/"
         IN  SubSeq(r.path, k + 1, Len(r.path))

ClaimIdentifierSamples ==
    { <<>>, Chars("o'k"), Chars("1 OR 1=1"), Chars("x'; DROP TABLE html;--") }

\* C4: in plain record-lookup mode the identifier reaches the store as the
\* one bound argument of one QueryRowContext call, and the SQL text of that
\* call is the text built for any other identifier: it does not depend on
\* the identifier.
C4_PlainLookupBindsIdentifier ==
    (last # Idle /\ last.route = "record" /\ h.RecordMacro = <<>>) =>
        /\ Len(last.ops) = 1
        /\ last.ops[1].call = "QueryRowContext"
        /\ last.ops[1].args = << ClaimIdentifier(h, last.req) >>
        /\ \A id \in ClaimIdentifierSamples : last.ops[1].sql = recordQuery(h, id).sql

\* A plain lookup, with a where clause configured, for an identifier that
\* holds a quote.
C4_Witness ==
    /\ last # Idle
    /\ last.route = "record"
    /\ h.RecordMacro = <<>>
    /\ h.WhereClause # <<>>
    /\ last.ops[1].args = << Chars("o'k") >>

\* Reads SQL text as a SQL lexer does, from position st.i up to position
\* stop: outside a literal a quote opens one; inside, two adjacent quotes are
\* one quote character of the value and a single quote closes the literal.
\* st holds the position, whether it is inside a literal, the value read so
\* far of the open literal, and the values of the closed ones.
RECURSIVE ClaimLexTo(_, _, _)
ClaimLexTo(sql, stop, st) ==
    IF st.i > stop THEN st
    ELSE
        LET i       == st.i
            quote   == sql[i] = "'"
            doubled == st.inLit /\ quote /\ i < Len(sql) /\ sql[i + 1] = "'"
            closing == st.inLit /\ quote /\ ~doubled
            next    == [i     |-> IF doubled THEN i + 2 ELSE i + 1,
                        inLit |-> IF st.inLit THEN ~closing ELSE quote,
                        cur   |-> IF ~st.inLit \/ closing THEN <<>> ELSE Append(st.cur, sql[i]),
                        done  |-> IF closing THEN Append(st.done, st.cur) ELSE st.done]
        IN  IF next.i > i THEN ClaimLexTo(sql, stop, next) ELSE st

\* The text read from st on, sixteen positions at a time.  The result tells
\* whether the text ends outside a literal, and gives the values of the
\* literals read.
RECURSIVE ClaimLexFrom(_, _)
ClaimLexFrom(sql, st) ==
    IF st.i > Len(sql) THEN [closed |-> ~st.inLit, values |-> st.done]
    ELSE LET stop == IF st.i + 15 < Len(sql) THEN st.i + 15 ELSE Len(sql)
             next == ClaimLexTo(sql, stop, st)
         IN  IF next.i > st.i THEN ClaimLexFrom(sql, next)
             ELSE [closed |-> FALSE, values |-> <<>>]

ClaimLex(sql, i, inLit, cur, done) ==
    ClaimLexFrom(sql, [i |-> i, inLit |-> inLit, cur |-> cur, done |-> done])

\* The first n characters of s, all of s when it is shorter.
ClaimTake(s, n) == [i \in 1..(IF Len(s) < n THEN Len(s) ELSE n) |-> s[i]]

\* The quoted values a macro call has to carry for a request.
ClaimLiterals(c, o) ==
    LET r    == o.req
        path == IF r.path[Len(r.path)] = "/" THEN SubSeq(r.path, 1, Len(r.path) - 1) ELSE r.path
        base == IF c.BasePath # <<>> THEN c.BasePath ELSE path
    IN  CASE o.route = "record" -> << ClaimIdentifier(c, r) >>
          [] o.route = "index"  -> << base >>
          [] o.route = "search" ->
               << ClaimTake(TrimSpace(QueryGet(r.query, c.SearchParam)), 200),
                  IF c.BasePath # <<>> THEN c.BasePath ELSE TrimSuffix(path, Chars("/search")) >>
          [] OTHER -> o.ops[1].lits

\* C5: the SQL text of every macro call (record macro, search, index, table)
\* lexes into closed literals whose values are exactly the values the
\* builder embedded: inside a literal a quote occurs only as a doubled pair,
\* so no input closes a literal before the builder's closing quote.
C5_QuotedLiteralsStayClosed ==
    ( /\ last # Idle
      /\ \/ last.route \in {"search", "index", "table"}
         \/ last.route = "record" /\ h.RecordMacro # <<>> ) =>
        /\ Len(last.ops) = 1
        /\ last.ops[1].args = <<>>
        /\ LET lex == ClaimLex(last.ops[1].sql, 1, FALSE, <<>>, <<>>)
           IN  /\ lex.closed
               /\ lex.values = last.ops[1].lits
               /\ lex.values = ClaimLiterals(h, last)

\* A table macro call that carries a value with a quote in it.
C5_Witness ==
    /\ last # Idle
    /\ last.route = "table"
    /\ \E i \in DOMAIN last.ops[1].lits : last.ops[1].lits[i] = Chars("o'k")
    /\ ClaimContains(last.ops[1].sql, Chars("'o''k'"))

(***************************************************************************)
(* sanitizeIdentifier, escapeSQLString and the If-None-Match test          *)
(* (C6, C7, C8), under SpecStr.                                            *)
(***************************************************************************)
\* The characters of [A-Za-z0-9_].
ClaimWordChars ==
    LET all == Chars("ABCDEFGHIJKLMNOPQRSTUVWXYZabcdefghijklmnopqrstuvwxyz0123456789_")
    IN  {all[i] : i \in DOMAIN all}

ClaimIsWordChar(ch) == ch \in ClaimWordChars

\* C6: sanitizeIdentifier(s) holds only characters of [A-Za-z0-9_] and is
\* the subsequence of s made of all such characters of s, in their order;
\* "html; DROP TABLE users;--" becomes "htmlDROPTABLEusers".
C6_SanitizeKeepsWordChars ==
    fn.op = "sanitizeIdentifier" =>
        /\ \A i \in DOMAIN fn.out : fn.out[i] \in ClaimWordChars
        /\ fn.out = SelectSeq(fn.in, ClaimIsWordChar)
        /\ fn.in = Chars("html; DROP TABLE users;--") => fn.out = Chars("htmlDROPTABLEusers")

C6_Witness ==
    /\ fn.op = "sanitizeIdentifier"
    /\ fn.in = Chars("html; DROP TABLE users;--")
    /\ fn.out = Chars("htmlDROPTABLEusers")

ClaimQuotes(s) == Cardinality({i \in DOMAIN s : s[i] = "'"})

ClaimNotQuote(ch) == ch # "'"

\* Each doubled quote of t, read from the left, as one quote.
RECURSIVE ClaimCollapse(_)
ClaimCollapse(t) ==
    IF t = <<>> THEN <<>>
    ELSE IF Len(t) >= 2 /\ t[1] = "'" /\ t[2] = "'"
         THEN <<"'">> \o ClaimCollapse(SubSeq(t, 3, Len(t)))
         ELSE <<t[1]>> \o ClaimCollapse(Tail(t))

\* C7: escapeSQLString(s) is s with every quote replaced by two quotes and
\* every other character unchanged and in order; collapsing the doubled
\* quotes of the result gives s back.
C7_EscapeDoublesQuotes ==
    fn.op = "escapeSQLString" =>
        /\ Len(fn.out) = Len(fn.in) + ClaimQuotes(fn.in)
        /\ \A i \in DOMAIN fn.in :
             LET k == i + ClaimQuotes(SubSeq(fn.in, 1, i - 1))
             IN  /\ fn.out[k] = fn.in[i]
                 /\ fn.in[i] = "'" => fn.out[k + 1] = "'"
        /\ SelectSeq(fn.out, ClaimNotQuote) = SelectSeq(fn.in, ClaimNotQuote)
        /\ ClaimCollapse(fn.out) = fn.in

C7_Witness ==
    /\ fn.op = "escapeSQLString"
    /\ fn.in = <<"'", "a", "'">>
    /\ fn.out = <<"'", "'", "a", "'", "'">>

\* Positions i..j of s (none when j = i - 1) are a comma-separated piece.
ClaimIsPiece(s, i, j) ==
    /\ i = 1 \/ s[i - 1] = ","
    /\ j = Len(s) \/ s[j + 1] = ","
    /\ \A k \in i..j : s[k] # ","

\* f is p without its surrounding whitespace.
ClaimTrimsTo(p, f) ==
    \E a \in 0..Len(p) : \E b \in a..Len(p) :
        /\ SubSeq(p, a + 1, b) = f
        /\ \A k \in 1..a : p[k] \in WhiteSpace
        /\ \A k \in (b + 1)..Len(p) : p[k] \in WhiteSpace
        /\ f = <<>> \/ (f[1] \notin WhiteSpace /\ f[Len(f)] \notin WhiteSpace)

ClaimMatch(hv, f) ==
    IF hv = <<>> THEN FALSE
    ELSE IF hv = <<"*">> THEN TRUE
    ELSE \E i \in 1..(Len(hv) + 1) : \E j \in (i - 1)..Len(hv) :
            ClaimIsPiece(hv, i, j) /\ ClaimTrimsTo(SubSeq(hv, i, j), f)

\* C8: the If-None-Match test is false for an empty header value, true for
\* the value "*", and otherwise true exactly when some comma-separated piece
\* of the value, without its surrounding whitespace, equals the fingerprint.
C8_IfNoneMatchRule ==
    fn.op = "etagMatches" => fn.out = ClaimMatch(fn.in, fn.etag)

\* A match by the second piece of a list, which has a leading space.
C8_Witness ==
    /\ fn.op = "etagMatches"
    /\ fn.in = <<",", " ", "a">>
    /\ fn.etag = <<"a">>
    /\ fn.out = TRUE

(***************************************************************************)
(* Conditional responses and the fingerprint (C9, C10).                    *)
(***************************************************************************)
ClaimHeader(o, name) == IF name \in DOMAIN o.w.hdr THEN o.w.hdr[name] ELSE <<>>

\* The lookup of a record request returned a row.
ClaimRecordRow(o) == o # Idle /\ o.route = "record" /\ o.store.kind = "row"

\* C9: for a record request whose lookup returned a row, a matching
\* If-None-Match gives 304 with an empty body and neither Content-Length nor
\* Content-Type; otherwise the response is 200 with the fingerprint as ETag,
\* the content length, Content-Type text/html; charset=utf-8 and the
\* configured Cache-Control.  A record request whose lookup returned no row
\* never gets 304.
C9_ConditionalResponse ==
    (last # Idle /\ last.route = "record") =>
        /\ last.store.kind = "row" =>
             IF etagMatches(last.req.inm, generateETag(last.store.html)) THEN
                 /\ last.w.status = 304
                 /\ last.w.body = <<>>
                 /\ "Content-Length" \notin DOMAIN last.w.hdr
                 /\ "Content-Type" \notin DOMAIN last.w.hdr
                 /\ last.ret = RetNil
             ELSE
                 /\ last.w.status = 200
                 /\ ClaimHeader(last, "ETag") = generateETag(last.store.html)
                 /\ ClaimHeader(last, "Content-Length") # <<>>
                 /\ DecimalValue(ClaimHeader(last, "Content-Length")) = Len(last.store.html)
                 /\ ClaimHeader(last, "Content-Type") = Chars("text/html; charset=utf-8")
                 /\ h.CacheControl # <<>> =>
                      ClaimHeader(last, "Cache-Control") = h.CacheControl
                 /\ last.ret = RetNil => last.w.body = last.store.html
        /\ last.store.kind # "row" => last.w.status # 304

\* A 304 for a header value that lists the fingerprint after another tag.
C9_Witness ==
    /\ ClaimRecordRow(last)
    /\ last.w.status = 304
    /\ last.req.inm # <<"*">>
    /\ Len(Split(last.req.inm, ",")) = 2
    /\ last.store.html = <<>>

\* Contents a and b are the two contents with one MD5 digest.
ClaimCollide(a, b) == {a, b} = {WangA, WangB}

\* C10 as stated: the ETag of a 200 response is the ETag of its content and
\* of no other content: identical bytes give the identical ETag and any
\* change of the bytes changes it.
C10_FingerprintIdentifiesContent ==
    (ClaimRecordRow(last) /\ last.w.status = 200) =>
        \A c \in Contents :
            (generateETag(c) = ClaimHeader(last, "ETag")) <=> (c = last.store.html)

\* The ETag of a 200 response depends on the content alone: it is the ETag of
\* that content whatever the configuration and the request, the quoted
\* 32-digit hexadecimal MD5 digest (d41d8cd98f00b204e9800998ecf8427e for no
\* bytes), and it is the ETag of another content only when the two contents
\* are an MD5 collision.
ClaimFingerprintOfBytes ==
    /\ generateETag(<<>>) = Chars("\"d41d8cd98f00b204e9800998ecf8427e\"")
    /\ generateETag(WangA) = Chars("\"79054025255fb1a26e4bc422aef54eb4\"")
    /\ (ClaimRecordRow(last) /\ last.w.status = 200) =>
         \A c \in Contents :
             (generateETag(c) = ClaimHeader(last, "ETag"))
             <=> (c = last.store.html \/ ClaimCollide(c, last.store.html))

\* A request repeated with the ETag of its 200 response as If-None-Match,
\* for a record whose content is unchanged, gets 304.
ClaimRoundTrip ==
    ( /\ ClaimRecordRow(last) /\ last.w.status = 200
      /\ ClaimRecordRow(last')
      /\ last'.req = [last.req EXCEPT !.inm = last.w.hdr["ETag"]]
      /\ last'.store.html = last.store.html ) =>
        /\ last'.w.status = 304
        /\ last'.w.body = <<>>

\* C10, amended: identical bytes give the identical ETag in every mode and
\* request, different contents give different ETags unless they are an MD5
\* collision, and the ETag of a 200 response sent back as If-None-Match for
\* the unchanged record gives 304.
C10_FingerprintUpToCollisions ==
    []ClaimFingerprintOfBytes /\ [][ClaimRoundTrip]_vars

\* A 304 for the ETag taken from the 200 response of the colliding content:
\* the round trip of a record whose content changed from WangA to WangB.
C10_Witness ==
    /\ ClaimRecordRow(last)
    /\ last.w.status = 304
    /\ last.req.inm = generateETag(WangA)
    /\ last.store.html = WangB

(***************************************************************************)
(* Caching of the other responses (C11).                                   *)
(***************************************************************************)
\* The Cache-Control values that forbid reuse without revalidation.
ClaimNonCacheable ==
    { Chars("no-cache"), Chars("no-cache, no-store, must-revalidate") }

\* The handler wrote a response for a search, index, table or health request.
ClaimOtherResponse(o) ==
    o # Idle /\ o.route \in {"search", "index", "table", "health"} /\ o.w.status # 0

\* C11 as stated: search, index, table and health responses carry no ETag,
\* are never 304 and always carry a Cache-Control that marks them
\* non-cacheable, whatever cache_control is configured.
C11_AlwaysNonCacheable ==
    ClaimOtherResponse(last) =>
        /\ "ETag" \notin DOMAIN last.w.hdr
        /\ last.w.status # 304
        /\ ClaimHeader(last, "Cache-Control") \in ClaimNonCacheable

\* C11, amended: search, index, table and health responses carry no ETag
\* and are never 304; search and table responses carry Cache-Control
\* no-cache and health responses no-cache, no-store, must-revalidate,
\* whatever cache_control is configured; an index response carries the
\* configured cache_control value, and no Cache-Control when none is
\* configured.
C11_NoConditionalCaching ==
    ClaimOtherResponse(last) =>
        /\ "ETag" \notin DOMAIN last.w.hdr
        /\ last.w.status # 304
        /\ last.route \in {"search", "table"} =>
             ClaimHeader(last, "Cache-Control") = Chars("no-cache")
        /\ last.route = "health" =>
             ClaimHeader(last, "Cache-Control") = Chars("no-cache, no-store, must-revalidate")
        /\ last.route = "index" =>
             /\ ClaimHeader(last, "Cache-Control") = h.CacheControl
             /\ ("Cache-Control" \in DOMAIN last.w.hdr) <=> (h.CacheControl # <<>>)

\* An index response to a request with If-None-Match: * that carries the
\* configured cache_control value.
C11_Witness ==
    /\ last # Idle
    /\ last.route = "index"
    /\ last.w.status = 200
    /\ last.req.inm = <<"*">>
    /\ ClaimHeader(last, "Cache-Control") = Chars("public")

(***************************************************************************)
(* Lookups that return no row (C12).                                       *)
(***************************************************************************)
\* A scalar lookup (record, index or search) returned zero rows.
ClaimNoRows(o) ==
    o # Idle /\ o.route \in {"record", "index", "search"} /\ o.store.kind = "norows"

\* The NotFound outcome: the 404 handler error, or the 302 redirect to the
\* configured URL when one is configured.
ClaimNotFound(c, o) ==
    IF c.NotFoundRedirect # <<>>
    THEN /\ o.w.status = 302
         /\ ClaimHeader(o, "Location") = c.NotFoundRedirect
         /\ o.ret.kind # "HandlerError"
    ELSE /\ o.ret = HandlerError(404)
         /\ o.w = NewWriter

\* C12 as stated: zero rows on the record lookup, the index macro call or
\* the search macro call give NotFound (404, or the configured redirect) and
\* never 500.
C12_ZeroRowsIsNotFound ==
    ClaimNoRows(last) => (ClaimNotFound(h, last) /\ last.ret # HandlerError(500))

\* C12, amended: zero rows on the record lookup (plain or macro mode) give
\* NotFound and never 500; zero rows on the index or the search macro call
\* give the 500 handler error, with nothing written and no redirect.
C12_ZeroRowsByRoute ==
    ClaimNoRows(last) =>
        IF last.route = "record"
        THEN ClaimNotFound(h, last) /\ last.ret # HandlerError(500)
        ELSE last.ret = HandlerError(500) /\ last.w = NewWriter

\* An index macro call that returned no row, answered 500 although a
\* not-found redirect is configured.
C12_Witness ==
    /\ ClaimNoRows(last)
    /\ last.route = "index"
    /\ h.NotFoundRedirect # <<>>
    /\ last.ret = HandlerError(500)

(***************************************************************************)
(* Store failures (C13).                                                   *)
(***************************************************************************)
\* A store operation of a record, index, search or table request failed: the
\* query, its deadline, the cancellation of the request, or the reading of
\* the rows.
ClaimStoreFailure(o) ==
    /\ o # Idle
    /\ o.route \in {"record", "index", "search", "table"}
    /\ o.store.kind \in {"err", "queryErr", "scanErr"}

\* C13: a store failure of a record, index, search or table request gives
\* the 500 handler error, and the handler has written no status, no header
\* and no byte of a response.
C13_StoreFailureIs500 ==
    ClaimStoreFailure(last) =>
        /\ last.ret = HandlerError(500)
        /\ last.w.status = 0
        /\ DOMAIN last.w.hdr = {}
        /\ last.w.body = <<>>

\* A table request whose rows could not be read to the end because the
\* request was cancelled.
C13_Witness ==
    /\ ClaimStoreFailure(last)
    /\ last.route = "table"
    /\ last.store.kind = "scanErr"
    /\ last.store.cause = "canceled"
    /\ last.ret = HandlerError(500)

(***************************************************************************)
(* Deadlines of the store operations (C14).                                *)
(***************************************************************************)
\* C14 as stated: every store operation issued for a request runs under a
\* deadline derived from the configured query timeout, for every
\* query_timeout Provision accepts.
C14_EveryOperationHasDeadline ==
    last # Idle =>
        \A i \in DOMAIN last.ops :
            /\ last.ops[i].ctx = "request"
            /\ last.ops[i].deadline

\* C14, amended: every store operation issued for a request (record, index,
\* search, table, each health probe) runs under the context of the request;
\* that context gets a deadline of the configured query timeout exactly when
\* the timeout is greater than zero, and no deadline when query_timeout is
\* zero or negative, which Provision accepts.
C14_DeadlineWhenPositive ==
    last # Idle =>
        \A i \in DOMAIN last.ops :
            LET d == ParseDuration(h.QueryTimeout).d
            IN  /\ last.ops[i].ctx = "request"
                /\ last.ops[i].deadline <=> d > 0
                /\ last.ops[i].deadline => last.ops[i].timeout = d

\* A health report made of probes without a deadline, under query_timeout 0.
C14_Witness ==
    /\ last # Idle
    /\ last.route = "health"
    /\ h.QueryTimeout = <<"0">>
    /\ Len(last.ops) >= 2
    /\ \A i \in DOMAIN last.ops : ~last.ops[i].deadline

(***************************************************************************)
(* The health report (C15).                                                *)
(***************************************************************************)
\* The checks a health report has to include under configuration c.
ClaimHealthCheckNames(c) ==
    {"database", "table"}
    \cup (IF c.IndexEnabled THEN {"index_macro"} ELSE {})
    \cup (IF c.SearchEnabled THEN {"search_macro"} ELSE {})
    \cup (IF c.RecordMacro # <<>> THEN {"record_macro"} ELSE {})
    \cup (IF c.TableMacro # <<>> THEN {"table_macro"} ELSE {})

C16_SearchTermTrimmedThenCut ==
    (last # Idle /\ last.route = "search") =>
        LET value   == QueryGet(last.req.query, h.SearchParam)
            sql     == last.ops[1].sql
            lex     == ClaimLex(sql, 1, FALSE, <<>>, <<>>)
            head    == Chars("SELECT html FROM ") \o sanitizeIdentifier(h.SearchMacro)
                       \o Chars("(term := '")
        IN  /\ HasPrefix(sql, head)
            /\ lex.closed
            /\ Len(lex.values) = 2
            /\ lex.values[1] = ClaimTake(TrimSpace(value), 200)
            /\ Len(lex.values[1]) <= 200
            /\ value = [i \in 1..250 |-> "a"] =>
                 HasPrefix(sql, head \o [i \in 1..200 |-> "a"] \o Chars("', base_path := '"))

\* A search whose trimmed value has a quote as its 200th character and more
\* after it: the term ends with that quote, doubled in the SQL text.
C16_Witness ==
    /\ last # Idle
    /\ last.route = "search"
    /\ Len(TrimSpace(QueryGet(last.req.query, h.SearchParam))) > 200
    /\ Len(last.ops[1].lits[1]) = 200
    /\ last.ops[1].lits[1][200] = "'"
    /\ ClaimContains(last.ops[1].sql, Chars("a''") \o Chars("', base_path := '"))

(***************************************************************************)
(* The arguments of the table macro call (C17).                            *)
(***************************************************************************)
\* The named argument a query parameter has to become.
ClaimTableArgument(q, key) ==
    LET value == QueryGet(q, key)
    IN  sanitizeIdentifier(key) \o Chars(" := ")
        \o (IF Atoi(value).ok THEN value
            ELSE <<"'">> \o escapeSQLString(value) \o <<"'">>)

\* C17: the table macro call carries one named argument for every query
\* parameter whose sanitized name is not empty, a bare numeric literal when
\* the value parses as an integer and an escaped quoted literal otherwise,
\* and after them a base_path argument built from the configuration exactly
\* when the request has no base_path parameter.
C17_TableArguments ==
    (last # Idle /\ last.route = "table") =>
        LET q        == last.req.query
            kept     == {k \in QueryKeys(q) : sanitizeIdentifier(k) # <<>>}
            supplied == Chars("base_path") \in QueryKeys(q)
            basePath == IF h.BasePath # <<>> THEN h.BasePath
                        ELSE TrimSuffix(last.req.path, <<"/">>)
            baseArg  == Chars("base_path := '") \o escapeSQLString(basePath) \o <<"'">>
        IN  \E o \in Orders(kept) :
                last.ops[1].sql =
                    Chars("SELECT * FROM ") \o sanitizeIdentifier(h.TableMacro) \o <<"(">>
                    \o Join([i \in DOMAIN o |-> ClaimTableArgument(q, o[i])]
                              \o (IF supplied THEN <<>> ELSE <<baseArg>>),
                            Chars(", "))
                    \o <<")">>

(***************************************************************************)
(* The page argument of the index macro call (C18).                        *)
(***************************************************************************)
\* The text of the index macro call between "(page := " and the comma.
ClaimPageLiteral(c, sql) ==
    LET head == Chars("SELECT html FROM ") \o sanitizeIdentifier(c.IndexMacro)
                \o Chars("(page := ")
        rest == SubSeq(sql, Len(head) + 1, Len(sql))
        stop == CHOOSE i \in DOMAIN rest :
                    rest[i] = "," /\ \A j \in 1..(i - 1) : rest[j] # ","
    IN  SubSeq(rest, 1, stop - 1)

\* The page numbers the page parameters of the model stand for; 1 for those
\* that are no integer greater than zero within the int range.
ClaimPageNumber(page) ==
    CASE page = Chars("2")   -> Chars("2")
      [] page = Chars("007") -> Chars("7")
      [] page = Chars("+5")  -> Chars("5")
      [] page = Chars("9223372036854775807") -> Chars("9223372036854775807")
      [] OTHER -> Chars("1")

\* C18: the page argument of the index macro call is a bare decimal literal
\* of a positive integer, never quoted: the value of the request's page
\* parameter when that is an integer greater than zero, and 1 when the
\* parameter is absent, not a number, zero, negative or out of the int range.
C18_PageIsPositiveLiteral ==
    (last # Idle /\ last.route = "index") =>
        LET sql  == last.ops[1].sql
            head == Chars("SELECT html FROM ") \o sanitizeIdentifier(h.IndexMacro)
                    \o Chars("(page := ")
            lit  == ClaimPageLiteral(h, sql)
        IN  /\ HasPrefix(sql, head \o lit \o Chars(", base_path := '"))
            /\ lit # <<>>
            /\ \A i \in DOMAIN lit : lit[i] \in {"0", "1", "2", "3", "4", "5", "6", "7", "8", "9"}
            /\ lit[1] # "0"
            /\ lit = ClaimPageNumber(QueryGet(last.req.query, Chars("page")))

\* An index request whose page parameter is one more than the largest int:
\* the call asks for page 1.
C18_Witness ==
    /\ last # Idle
    /\ last.route = "index"
    /\ QueryGet(last.req.query, Chars("page")) = Chars("9223372036854775808")
    /\ ClaimContains(last.ops[1].sql, Chars("(page := 1, base_path"))

(***************************************************************************)
(* The init script and Provision (C19, C20).                               *)
(***************************************************************************)
\* C19: the statements of the init script are passed to the store one at a
\* time in script order: the k-th call is for statement k, every call before
\* the last one succeeded, a failed call is the last one, and the error then
\* names the 1-based index of that statement; without an error every
\* statement has been executed.
C19_InitStatementsInOrder ==
    LET execs  == boot.init.execs
        script == boot.script
    IN  /\ Len(execs) <= Len(script)
        /\ \A k \in DOMAIN execs :
             /\ execs[k].index = k
             /\ execs[k].stmt = script[k]
             /\ ~execs[k].ok =>
                  /\ k = Len(execs)
                  /\ boot.init.err = "failed to execute statement"
                  /\ boot.init.index = k
                  /\ boot.err = "failed to execute init SQL file"
        /\ (boot.init.err = "nil" /\ phase # "new") =>
             /\ Len(execs) = Len(script)
             /\ \A k \in DOMAIN execs : execs[k].ok
        /\ boot.init.err = "failed to execute statement" =>
             /\ execs # <<>>
             /\ ~execs[Len(execs)].ok

\* The second of the three statements fails: two statements were executed,
\* the third never was, and the error names statement 2.
C19_Witness ==
    /\ boot.script = InitScript
    /\ Len(boot.init.execs) = 2
    /\ boot.init.execs[1].ok
    /\ ~boot.init.execs[2].ok
    /\ boot.init.index = 2
    /\ phase = "failed"

\* C20: Provision has succeeded only when the query timeout parsed, a table
\* is configured, the store was opened and answered the ping, and every
\* statement of a configured init script was executed successfully; in every
\* other case it has returned an error, no request is ever served, and a
\* handle it had opened is closed.
C20_ProvisionAllOrNothing ==
    /\ phase = "serving" =>
         /\ boot.err = "nil"
         /\ ParseDuration(h.QueryTimeout).ok
         /\ h.Table # <<>>
         /\ boot.opened /\ boot.pinged
         /\ h.db = "open"
         /\ boot.init.err = "nil"
         /\ h.InitSQLFile # <<>> =>
              /\ Len(boot.init.execs) = Len(boot.script)
              /\ \A k \in DOMAIN boot.init.execs : boot.init.execs[k].ok
    /\ phase = "failed" =>
         /\ boot.err # "nil"
         /\ h.db = (IF boot.opened THEN "closed" ELSE "nil")
    /\ boot.err # "nil" =>
         /\ phase \in {"failed", "cleaned"}
         /\ last = Idle
         /\ h.db # "open"
    /\ last # Idle => phase = "serving"

\* Provision failed at a statement of the init script, after the store was
\* opened and had answered the ping: the handle is closed.
C20_Witness ==
    /\ phase = "failed"
    /\ boot.opened /\ boot.pinged
    /\ boot.err = "failed to execute init SQL file"
    /\ boot.init.err = "failed to execute statement"
    /\ h.db = "closed"

(***************************************************************************)
(* parseSQLStatements (C21 to C26), under SpecSQL.                         *)
(***************************************************************************)
\* The parser is in none of its literal and comment states.
ClaimNormal(p) ==
    ~p.inSingleQuote /\ ~p.inDoubleQuote /\ ~p.inLineComment /\ ~p.inBlockComment

ClaimInLiteral(p) == p.inSingleQuote \/ p.inDoubleQuote

ClaimInComment(p) == p.inLineComment \/ p.inBlockComment

\* What C21 says of the pass of the loop for character r that takes the
\* parser from p to q.
ClaimSemicolonRule(p, r, q) ==
    /\ (r = ";" /\ ClaimNormal(p)) =>
         /\ q.current = <<>>
         /\ q.statements = (IF TrimSpace(p.current) # <<>>
                            THEN Append(p.statements, TrimSpace(p.current))
                            ELSE p.statements)
    /\ (r = ";" /\ ClaimInLiteral(p)) =>
         /\ q.current = Append(p.current, ";")
         /\ q.statements = p.statements
         /\ q.inSingleQuote = p.inSingleQuote /\ q.inDoubleQuote = p.inDoubleQuote
    /\ (r = ";" /\ ClaimInComment(p)) =>
         /\ q.current = p.current
         /\ q.statements = p.statements
    /\ (r \in {"-", "/", "*"} /\ ClaimInLiteral(p)) =>
         /\ q.current = Append(p.current, r)
         /\ ~ClaimInComment(q)
         /\ ClaimInLiteral(q)
    /\ q.statements # p.statements => (r = ";" /\ ClaimNormal(p))

\* C21: in every pass of the loop a semicolon ends the current statement
\* exactly when the parser is in none of its literal and comment states; in
\* a literal the semicolon, and likewise a dash, a slash or a star, is
\* appended to the statement text and starts nothing; in a comment the
\* semicolon is dropped and the statement goes on.
C21_SemicolonEndsStatementOnlyInNormal ==
    [][ (fn.op = "parseSQLStatements" /\ ~fn.done /\ fn'.i = fn.i + 1) =>
            ClaimSemicolonRule(fn.p, fn.in[fn.i], fn'.p) ]_vars

\* A script with a semicolon in a single-quoted literal and one after it has
\* been parsed into two statements, the first with its semicolon.
C21_Witness ==
    /\ fn.op = "parseSQLStatements"
    /\ fn.done
    /\ fn.in = Chars("SELECT 'a; b'; x")
    /\ fn.out = << Chars("SELECT 'a; b'"), Chars("x") >>

\* The least element of a non-empty set of numbers.
ClaimMin(S) == CHOOSE x \in S : \A y \in S : x <= y

\* The script consists, from position i on, of white space, line comments
\* (two dashes up to the end of the line) and block comments (slash-star up
\* to the first star-slash that follows the opener) only.
RECURSIVE ClaimOnlyCommentsFrom(_, _)
ClaimOnlyCommentsFrom(s, i) ==
    IF i > Len(s) THEN TRUE
    ELSE IF s[i] \in WhiteSpace THEN ClaimOnlyCommentsFrom(s, i + 1)
    ELSE IF i < Len(s) /\ s[i] = "-" /\ s[i + 1] = "-" THEN
        LET ends == {j \in (i + 2)..Len(s) : s[j] = "\n"}
        IN  IF ends = {} THEN TRUE ELSE ClaimOnlyCommentsFrom(s, ClaimMin(ends) + 1)
    ELSE IF i < Len(s) /\ s[i] = "/" /\ s[i + 1] = "*" THEN
        LET ends == {j \in (i + 2)..(Len(s) - 1) : s[j] = "*" /\ s[j + 1] = "/"}
        IN  IF ends = {} THEN FALSE ELSE ClaimOnlyCommentsFrom(s, ClaimMin(ends) + 2)
    ELSE FALSE

\* C22: no statement parseSQLStatements returns is empty or made of white
\* space only, and a script made of comments and white space only gives no
\* statement.
C22_CommentsOnlyGiveNoStatement ==
    (fn.op = "parseSQLStatements" /\ fn.done) =>
        /\ \A k \in DOMAIN fn.out : TrimSpace(fn.out[k]) # <<>>
        /\ ClaimOnlyCommentsFrom(fn.in, 1) => fn.out = <<>>

\* The script read from position i on by the lexical rules of SQL, st being
\* "normal", "single", "double", "line" or "block": a quote opens a literal
\* that the next quote of its kind closes, two dashes open a comment up to
\* the end of the line, slash-star opens a comment up to the first star-slash
\* after it.  The result is the state at the end of the script.
RECURSIVE ClaimSQLStateFrom(_, _, _)
ClaimSQLStateFrom(s, i, st) ==
    IF i > Len(s) THEN st
    ELSE LET two == IF i < Len(s) THEN <<s[i], s[i + 1]>> ELSE <<s[i]>>
         IN  CASE st = "normal" /\ s[i] = "'"      -> ClaimSQLStateFrom(s, i + 1, "single")
               [] st = "normal" /\ s[i] = "\""     -> ClaimSQLStateFrom(s, i + 1, "double")
               [] st = "normal" /\ two = <<"-", "-">> -> ClaimSQLStateFrom(s, i + 2, "line")
               [] st = "normal" /\ two = <<"/", "*">> -> ClaimSQLStateFrom(s, i + 2, "block")
               [] st = "single" /\ s[i] = "'"      -> ClaimSQLStateFrom(s, i + 1, "normal")
               [] st = "double" /\ s[i] = "\""     -> ClaimSQLStateFrom(s, i + 1, "normal")
               [] st = "line"   /\ s[i] = "\n"     -> ClaimSQLStateFrom(s, i + 1, "normal")
               [] st = "block"  /\ two = <<"*", "/">> -> ClaimSQLStateFrom(s, i + 2, "normal")
               [] OTHER -> ClaimSQLStateFrom(s, i + 1, st)

\* Every literal and every block comment of the script is closed.
ClaimWellFormed(s) == ClaimSQLStateFrom(s, 1, "normal") \in {"normal", "line"}

\* The text with every stretch of white space replaced by one space.
ClaimNormalized(s) == Join(Fields(s), <<" ">>)

\* C23: for a script whose literals and block comments are closed, the
\* statements joined with semicolons parse into the same statements again:
\* as many, in the same order, the same texts up to white space.
C23_RejoinedStatementsParseTheSame ==
    (fn.op = "parseSQLStatements" /\ fn.done /\ ClaimWellFormed(fn.in)) =>
        LET again == parseSQLStatements(Join(fn.out, <<";">>))
        IN  /\ Len(again) = Len(fn.out)
            /\ \A k \in DOMAIN fn.out :
                 ClaimNormalized(again[k]) = ClaimNormalized(fn.out[k])

\* What C24 says of the pass of the loop for character r that takes the
\* parser from p to q.
ClaimLineCommentRule(p, r, q) ==
    /\ (q.inLineComment /\ ~p.inLineComment) =>
         /\ r = "-" /\ p.prev = "-"
         /\ ClaimNormal(p)
         /\ p.current # <<>>
         /\ p.current[Len(p.current)] = "-"
         /\ q.current = SubSeq(p.current, 1, Len(p.current) - 1)
         /\ q.statements = p.statements
    /\ (p.inLineComment /\ r # "\n") =>
         /\ q.inLineComment
         /\ q.current = p.current
         /\ q.statements = p.statements
    /\ (p.inLineComment /\ r = "\n") =>
         /\ ClaimNormal(q)
         /\ q.current = Append(p.current, " ")
         /\ q.statements = p.statements

\* The position of the first two dashes in a row, 0 when there are none.
ClaimFirstDashes(s) ==
    LET at == {i \in 1..(Len(s) - 1) : s[i] = "-" /\ s[i + 1] = "-"}
    IN  IF at = {} THEN 0 ELSE ClaimMin(at)

\* The script is T--C\n: T without quotes, semicolons and slash-star, C
\* without a newline.
ClaimIsLineCommentScript(s) ==
    LET d == ClaimFirstDashes(s)
    IN  /\ d > 0
        /\ s[Len(s)] = "\n"
        /\ \A i \in 1..(d - 1) : s[i] \notin {"'", "\"", ";"}
        /\ \A i \in 1..(d - 2) : ~(s[i] = "/" /\ s[i + 1] = "*")
        /\ \A i \in (d + 2)..(Len(s) - 1) : s[i] # "\n"

\* C24: a line comment starts only at the second of two dashes in a row read
\* outside literals and comments, and takes back just the first dash; every
\* character after that up to the end of the line leaves the text as it is;
\* the newline adds one space and ends no statement.  So after a script
\* T--C\n the text is T and one space, whatever C is.
C24_LineCommentLeavesTextAlone ==
    /\ [][ (fn.op = "parseSQLStatements" /\ ~fn.done /\ fn'.i = fn.i + 1) =>
              ClaimLineCommentRule(fn.p, fn.in[fn.i], fn'.p) ]_vars
    /\ [] ( ( /\ fn.op = "parseSQLStatements"
              /\ ~fn.done
              /\ fn.i = Len(fn.in) + 1
              /\ ClaimIsLineCommentScript(fn.in) ) =>
            /\ fn.p.statements = <<>>
            /\ fn.p.current = SubSeq(fn.in, 1, ClaimFirstDashes(fn.in) - 1) \o <<" ">> )

\* The parser after the first k characters of the script.
ClaimParserAt(s, k) == parseFrom(SubSeq(s, 1, k), 1, ParserStart)

\* What C25 says of the pass of the loop for character i of script s, which
\* takes the parser from p to q; before is the parser one pass earlier.
ClaimBlockCommentRule(s, i, p, q) ==
    LET r        == s[i]
        before   == IF i > 1 THEN ClaimParserAt(s, i - 2) ELSE ParserStart
        opened   == i > 1 /\ ~before.inBlockComment /\ p.inBlockComment
        closed   == i > 1 /\ before.inBlockComment /\ ~p.inBlockComment
        closer   == p.inBlockComment /\ r = "/" /\ p.prev = "*" /\ ~opened
    IN  /\ (q.inBlockComment /\ ~p.inBlockComment) =>
             /\ r = "*" /\ p.prev = "/"
             /\ ClaimNormal(p)
             /\ p.current # <<>>
             /\ p.current[Len(p.current)] = "/"
             /\ q.current = SubSeq(p.current, 1, Len(p.current) - 1)
             /\ q.statements = p.statements
        /\ p.inBlockComment =>
             /\ q.inBlockComment = ~closer
             /\ q.current = (IF closer THEN Append(p.current, " ") ELSE p.current)
             /\ q.statements = p.statements
             /\ closer => ClaimNormal(q)
        /\ (closed /\ r = "*") =>
             /\ ~q.inBlockComment
             /\ q.current = Append(p.current, "*")

\* C25: a block comment starts at slash-star read outside literals and
\* comments and takes back just the slash; it ends at the next star-slash,
\* which adds one space; the star of the opener closes nothing, so after
\* "/*/" the comment is open; and a star directly after the closer is text
\* of the statement and opens nothing.
C25_BlockCommentDelimiters ==
    /\ [][ (fn.op = "parseSQLStatements" /\ ~fn.done /\ fn'.i = fn.i + 1) =>
              ClaimBlockCommentRule(fn.in, fn.i, fn.p, fn'.p) ]_vars
    /\ [] ( ( /\ fn.op = "parseSQLStatements"
              /\ fn.in = Chars("/*/")
              /\ fn.i = 4 ) => fn.p.inBlockComment )

\* The text from position i on, read in quote state st ("normal", "single"
\* or "double"), closes every literal it opens and has no comment delimiter
\* outside a literal.
RECURSIVE ClaimCleanFrom(_, _, _)
ClaimCleanFrom(s, i, st) ==
    IF i > Len(s) THEN st = "normal"
    ELSE LET two == IF i < Len(s) THEN <<s[i], s[i + 1]>> ELSE <<s[i]>>
         IN  CASE st = "normal" /\ two \in {<<"-", "-">>, <<"/", "*">>, <<"*", "/">>} -> FALSE
               [] st = "normal" /\ s[i] = "'"  -> ClaimCleanFrom(s, i + 1, "single")
               [] st = "normal" /\ s[i] = "\"" -> ClaimCleanFrom(s, i + 1, "double")
               [] st = "single" /\ s[i] = "'"  -> ClaimCleanFrom(s, i + 1, "normal")
               [] st = "double" /\ s[i] = "\"" -> ClaimCleanFrom(s, i + 1, "normal")
               [] OTHER -> ClaimCleanFrom(s, i + 1, st)

\* C26: in every statement parseSQLStatements returns, whatever the script,
\* every quote that is opened is closed and no comment delimiter ("--",
\* "/*", "*/") stands outside a literal.
C26_StatementsAreClean ==
    (fn.op = "parseSQLStatements" /\ fn.done) =>
        \A k \in DOMAIN fn.out : ClaimCleanFrom(fn.out[k], 1, "normal")

(***************************************************************************)
(* The argument names of the table macro call (C27).                       *)
(***************************************************************************)
ClaimNameChars ==
    { "a", "b", "c", "d", "e", "f", "g", "h", "i", "j", "k", "l", "m", "n", "o",
      "p", "q", "r", "s", "t", "u", "v", "w", "x", "y", "z", "_",
      "0", "1", "2", "3", "4", "5", "6", "7", "8", "9" }

\* The names that stand before " := " outside a literal in the SQL text from
\* position i on; word is the name being read.
RECURSIVE ClaimArgumentNames(_, _, _, _)
ClaimArgumentNames(sql, i, inLit, word) ==
    IF i > Len(sql) THEN <<>>
    ELSE IF sql[i] = "'" THEN ClaimArgumentNames(sql, i + 1, ~inLit, <<>>)
    ELSE IF inLit THEN ClaimArgumentNames(sql, i + 1, inLit, <<>>)
    ELSE IF i + 3 <= Len(sql) /\ SubSeq(sql, i, i + 3) = Chars(" := ") THEN
        <<word>> \o ClaimArgumentNames(sql, i + 4, inLit, <<>>)
    ELSE IF sql[i] \in ClaimNameChars THEN
        ClaimArgumentNames(sql, i + 1, inLit, Append(word, sql[i]))
    ELSE ClaimArgumentNames(sql, i + 1, inLit, <<>>)

\* C27: in the table macro call no argument name occurs twice: two
\* parameters of the query never give one name, and the base_path argument
\* built from the configuration never stands next to one from the query.
C27_ArgumentNamesDistinct ==
    (last # Idle /\ last.route = "table") =>
        LET names == ClaimArgumentNames(last.ops[1].sql, 1, FALSE, <<>>)
        IN  \A i, j \in DOMAIN names : names[i] = names[j] => i = j

(***************************************************************************)
(* The life of the store handle (C28).                                     *)
(***************************************************************************)
\* What C28 says of one step: the handle is created by Provision only, a
\* handle that exists is never replaced or opened again, and nothing happens
\* to the handle while a request is being served.
ClaimHandleStep ==
    /\ (h.db = "nil" /\ h'.db # "nil") => (phase = "new" /\ boot'.opened)
    /\ h.db # "nil" => h'.db \in {h.db, "closed"}
    /\ last # Idle => (h'.db = h.db /\ boot'.closes = boot.closes)

\* C28: over the calls of Provision, ServeHTTP and Cleanup on one handler the
\* store handle is created at most once, by Provision, is not created,
\* replaced or closed while a request is being served, and, when it was
\* created, is closed exactly once: also when Provision fails after it
\* opened the handle and Cleanup is called afterwards.
C28_HandleClosedExactlyOnce ==
    /\ [][ClaimHandleStep]_vars
    /\ [] (boot.closes <= 1)
    /\ [] ((phase = "cleaned" /\ boot.opened) => (boot.closes = 1 /\ h.db = "closed"))

(***************************************************************************)
(* Requests served at the same time (C29), under SpecPar.                  *)
(***************************************************************************)
\* What ServeHTTP gives for the request of slot s when it is handled alone
\* by the handler as the request found it.
ClaimAlone(s) == ServeHTTP(s.seen, s.req, s.env)

ClaimAsAlone(s) ==
    /\ s.pc \in {"routed", "queried", "answered"} => s.route = ClaimAlone(s).route
    /\ s.pc \in {"queried", "answered"} => s.ops = ClaimAlone(s).ops
    /\ s.pc = "answered" => (s.w = ClaimAlone(s).w /\ s.ret = ClaimAlone(s).ret)

ClaimIdentifiers(c) ==
    {c.Table, c.HTMLColumn, c.IDColumn}
    \cup (IF c.IndexEnabled THEN {c.IndexMacro} ELSE {})
    \cup (IF c.SearchEnabled THEN {c.SearchMacro} ELSE {})
    \cup (IF c.RecordMacro # <<>> THEN {c.RecordMacro} ELSE {})
    \cup (IF c.TableMacro # <<>> THEN {c.TableMacro} ELSE {})

\* C30: once Provision has succeeded, every name the handler writes into SQL
\* is not empty after sanitizeIdentifier, and no SQL of a request has the
\* place after FROM empty.
C30_IdentifiersNotEmpty ==
    phase = "serving" =>
        /\ \A name \in ClaimIdentifiers(h) : sanitizeIdentifier(name) # <<>>
        /\ last # Idle =>
             \A k \in DOMAIN last.ops :
                 /\ ~ClaimContains(last.ops[k].sql, Chars(" FROM  "))
                 /\ ~ClaimContains(last.ops[k].sql, Chars(" FROM ("))
====
